---- MODULE Spec2Model ----
(***************************************************************************)
(* A model of the copy / list / glob engine of opendal-util                *)
(* (src/src/copy.rs, src/src/list.rs, src/src/glob.rs).                    *)
(*                                                                         *)
(* A path string is modelled as the sequence of its '/'-separated          *)
(* segments, exactly what str::split('/') yields: "" is <<"">>, "a/b" is   *)
(* <<"a","b">>, "dir/" is <<"dir","">>, "/" is <<"","">>, "a//b" is        *)
(* <<"a","","b">>.  This keeps leading, trailing and doubled separators,   *)
(* so string operations (join, trim, ends_with) and component operations   *)
(* (parent, file_name, strip_prefix, equality) are distinct things.        *)
(***************************************************************************)
EXTENDS Integers, Sequences, FiniteSets, TLC

(***************************************************************************)
(* Strings as segment sequences                                            *)
(***************************************************************************)

\* The empty string.
EmptyStr == << "" >>

\* str::ends_with('/')
EndsWithSlash(s) == Len(s) >= 2 /\ s[Len(s)] = ""

\* str::starts_with('/'): a unix path is absolute iff it does
StartsWithSlash(s) == Len(s) >= 2 /\ s[1] = ""

\* str::is_empty
IsEmptyStr(s) == s = EmptyStr

\* str::trim_start_matches('/'): every leading separator is removed
RECURSIVE TrimStartSlashes(_)
TrimStartSlashes(s) ==
    IF StartsWithSlash(s) THEN TrimStartSlashes(Tail(s)) ELSE s

\* A push that leaves the string as it is
PushSlashNever(s) == s

\* String::push('/')
PushSlash(s) == s \o << "" >>

\* The segments of the model that contain one of the characters * ? [ {
GlobSegments == { "*", "**", "[" }

\* glob::has_glob_chars on one segment or on a whole string ('/' is no
\* metacharacter, so a string has one iff one of its segments has)
SegHasGlob(seg) == seg \in GlobSegments

has_glob_chars(s) == \E i \in 1..Len(s) : SegHasGlob(s[i])

(***************************************************************************)
(* typed_path::Utf8UnixPath: components                                    *)
(***************************************************************************)

\* The root component is written "/" (no segment contains a separator).
RootC == "/"

\* Utf8UnixPath::components: the root if the string starts with a
\* separator, then each segment that is not empty and is not a "." (a "."
\* is kept only as the first component of a relative path).
Components(s) ==
    LET keep(i) == /\ s[i] # ""
                   /\ (s[i] = "." => (i = 1))
        idx == { i \in 1..Len(s) : keep(i) }
        RECURSIVE build(_)
        build(i) == IF i > Len(s) THEN << >>
                    ELSE IF i \in idx THEN << s[i] >> \o build(i + 1)
                    ELSE build(i + 1)
    IN  (IF StartsWithSlash(s) THEN << RootC >> ELSE << >>) \o build(1)

IsNormalC(c) == c \notin { RootC, ".", ".." }

\* PartialEq / Hash of Utf8UnixPathBuf compare component lists
PathEq(a, b) == Components(a) = Components(b)

\* The string of a component list built by repeated push
RECURSIVE JoinC(_)
JoinC(cs) ==
    IF cs = << >> THEN EmptyStr
    ELSE IF cs[1] = RootC
         THEN IF Len(cs) = 1 THEN << "", "" >> ELSE << "" >> \o Tail(cs)
         ELSE cs

\* A normalization whose ".." pops the preceding normal component and then
\* stays in the path
RECURSIVE NormalizeCParentKept(_, _)
NormalizeCParentKept(cs, acc) ==
    IF cs = << >> THEN acc
    ELSE IF cs[1] = ".." /\ acc # << >> /\ acc[Len(acc)] \notin { "/", ".", ".." }
         THEN NormalizeCParentKept(Tail(cs),
                                   Append(SubSeq(acc, 1, Len(acc) - 1), ".."))
         ELSE NormalizeCParentKept(Tail(cs), Append(acc, cs[1]))

\* Utf8UnixPath::normalize: "." dropped, ".." pops a preceding normal
\* component and is dropped otherwise.
RECURSIVE NormalizeC(_, _)
NormalizeC(cs, acc) ==
    IF cs = << >> THEN acc
    ELSE LET c == cs[1] IN
         IF c = "." THEN NormalizeC(Tail(cs), acc)
         ELSE IF c = ".."
              THEN IF acc # << >> /\ IsNormalC(acc[Len(acc)])
                   THEN NormalizeC(Tail(cs), SubSeq(acc, 1, Len(acc) - 1))
                   ELSE NormalizeC(Tail(cs), acc)
              ELSE NormalizeC(Tail(cs), Append(acc, c))

Normalize(s) == JoinC(NormalizeC(Components(s), << >>))

\* copy.rs normalize_path
normalize_path(path) ==
    LET is_dir == EndsWithSlash(path)
        p == TrimStartSlashes(Normalize(path))
    IN  IF is_dir THEN (IF IsEmptyStr(p) THEN << "", "" >> ELSE PushSlash(p))
        ELSE p

\* Utf8UnixPath::parent: the path without its last component, none when
\* the path is empty or ends in the root
HasParent(s) ==
    LET cs == Components(s) IN cs # << >> /\ cs[Len(cs)] # RootC

Parent(s) ==
    LET cs == Components(s) IN JoinC(SubSeq(cs, 1, Len(cs) - 1))

\* Utf8UnixPath::file_name: the last component when it is a normal one
HasFileName(s) ==
    LET cs == Components(s) IN cs # << >> /\ IsNormalC(cs[Len(cs)])

FileName(s) == LET cs == Components(s) IN cs[Len(cs)]

\* Utf8UnixPathBuf::join (push): an empty argument changes nothing, an
\* absolute one replaces the path, otherwise it is appended after a
\* separator unless the path is empty or ends with one
Join(base, rel) ==
    IF IsEmptyStr(rel) THEN base
    ELSE IF StartsWithSlash(rel) THEN rel
    ELSE IF IsEmptyStr(base) THEN rel
    ELSE IF EndsWithSlash(base) THEN SubSeq(base, 1, Len(base) - 1) \o rel
    ELSE base \o rel

\* Utf8UnixPath::strip_prefix succeeds iff the prefix's components start
\* the path's components
IsPrefixSeq(p, s) == Len(p) <= Len(s) /\ SubSeq(s, 1, Len(p)) = p

CanStripPrefix(s, prefix) == IsPrefixSeq(Components(prefix), Components(s))

StripPrefix(s, prefix) ==
    LET cs == Components(s)
        n  == Len(Components(prefix))
    IN  JoinC(SubSeq(cs, n + 1, Len(cs)))

(***************************************************************************)
(* The storage operator (opendal::Operator) as the engine uses it.  A      *)
(* backend holds objects under keys: the non-empty segments of the path    *)
(* string (the operator trims leading and collapses doubled separators).   *)
(* A string names a directory iff it is empty or ends with a separator.    *)
(***************************************************************************)

Key(s) == SelectSeq(s, LAMBDA x : x # "")

IsDirStr(s) == s[Len(s)] = ""

\* The string of a key, as a file path and as a directory path
FileStr(k) == IF k = << >> THEN EmptyStr ELSE k

DirStr(k) == k \o << "" >>

\* An object: its mode, its chunks, and the content type and the
\* filename of the content disposition its metadata carries ("none" when
\* the metadata has none)
Obj(mode, data, ctype) ==
    [mode |-> mode, data |-> data, ctype |-> ctype, cd |-> "none"]

WithCd(o, cd) == [o EXCEPT !.cd = cd]

Put(fs, k, o) == (k :> o) @@ fs

\* A directory exists when it is the root, was created, or holds an object
DirExists(fs, k) ==
    \/ k = << >>
    \/ (k \in DOMAIN fs /\ fs[k].mode = "DIR")
    \/ \E x \in DOMAIN fs : Len(x) > Len(k) /\ IsPrefixSeq(k, x)

\* The error kind an injected backend failure carries
BackendError == "PermissionDenied"

VARIABLES
    faults,        \* whether the backends may fail during this run of copy
    dir_stat       \* per backend, what stat answers for a directory asked
                   \* for without its trailing separator: "DIR",
                   \* "NotFound", or "any" when the backend is not fixed

\* The failures a backend call can end in
Faults == IF faults THEN { BackendError } ELSE { }

Backends == { "src", "dst" }

\* Operator::stat: the answers the backend can give for a path.  A
\* directory asked for without its trailing separator is reported as a
\* directory by some backends and as missing by others.
StatOutcomes(b, fs, s) ==
    LET k == Key(s) IN
    Faults \cup
    ( IF k = << >> /\ k \in DOMAIN fs THEN { fs[k].mode }
      ELSE IF IsDirStr(s)
        THEN (IF DirExists(fs, k) THEN { "DIR" } ELSE { "NotFound" })
      ELSE IF k \in DOMAIN fs /\ fs[k].mode # "DIR" THEN { fs[k].mode }
      ELSE IF DirExists(fs, k)
        THEN (IF dir_stat[b] = "any" THEN { "DIR", "NotFound" }
              ELSE { dir_stat[b] })
      ELSE { "NotFound" } )

\* A check that takes no destination for a file
StatIsFileNever(r) == FALSE

\* A check that takes a missing path for a successful stat
StatIsOkLoose(r) == r \in { "FILE", "DIR", "Unknown", "NotFound" }

\* Metadata::is_file, Metadata::is_dir on a successful stat
StatIsFile(r) == r = "FILE"

StatIsDir(r) == r = "DIR"

StatIsOk(r) == r \in { "FILE", "DIR", "Unknown" }

\* Operator::create_dir: the path must name a directory (end with a
\* separator), else the operator answers NotADirectory; it may also fail
\* in the backend; creating an existing directory succeeds.
CreateDirOutcomes(s) ==
    IF IsDirStr(s) THEN { "ok" } \cup Faults ELSE { "NotADirectory" }

\* A create_dir that creates nothing
CreateDirEffectNone(fs, s) == fs

CreateDirEffect(fs, s) ==
    LET k == Key(s) IN
    IF k = << >> \/ k \in DOMAIN fs THEN fs
    ELSE Put(fs, k, Obj("DIR", << >>, "none"))

\* Operator::writer_with: a directory path cannot be written
WriterOutcomes(s) ==
    IF IsDirStr(s) THEN { "IsADirectory" } ELSE { "ok" } \cup Faults

\* Operator::lister / lister_options.  Entries are (path string, mode);
\* a directory entry's path ends with a separator.  A path that names a
\* directory lists that directory; any other path lists by prefix.
Entry(path, mode) == [path |-> path, mode |-> mode]

Under(fs, k) == { x \in DOMAIN fs : Len(x) > Len(k) /\ IsPrefixSeq(k, x) }

ListDir(fs, k, recursive) ==
    IF recursive
    THEN { Entry(IF fs[x].mode = "DIR" THEN DirStr(x) ELSE FileStr(x), fs[x].mode)
             : x \in Under(fs, k) }
    ELSE { Entry(FileStr(x), fs[x].mode)
             : x \in { y \in Under(fs, k) : Len(y) = Len(k) + 1 /\ fs[y].mode # "DIR" } }
         \cup
         { Entry(DirStr(SubSeq(x, 1, Len(k) + 1)), "DIR")
             : x \in { y \in Under(fs, k) : Len(y) > Len(k) + 1 \/ fs[y].mode = "DIR" } }

\* The names of the model of which another name is a proper prefix, as
\* strings: dx starts with d
NameExtends(name, prefix) == << prefix, name >> \in { << "d", "dx" >> }

\* The objects a prefix listing of k finds next to k: in the directory of k,
\* or below a directory there, under a name that the last segment of k
\* starts
NextTo(fs, k) ==
    IF k = << >> THEN { }
    ELSE { x \in DOMAIN fs :
             /\ Len(x) >= Len(k)
             /\ SubSeq(x, 1, Len(k) - 1) = SubSeq(k, 1, Len(k) - 1)
             /\ NameExtends(x[Len(k)], k[Len(k)]) }

ListNextTo(fs, k, recursive) ==
    IF recursive
    THEN { Entry(IF fs[x].mode = "DIR" THEN DirStr(x) ELSE FileStr(x), fs[x].mode)
             : x \in NextTo(fs, k) }
    ELSE { Entry(FileStr(x), fs[x].mode)
             : x \in { y \in NextTo(fs, k) : Len(y) = Len(k) /\ fs[y].mode # "DIR" } }
         \cup
         { Entry(DirStr(SubSeq(x, 1, Len(k))), "DIR")
             : x \in { y \in NextTo(fs, k) : Len(y) > Len(k) \/ fs[y].mode = "DIR" } }

BackendList(fs, s, recursive) ==
    LET k == Key(s) IN
    IF IsDirStr(s) THEN ListDir(fs, k, recursive)
    ELSE ListNextTo(fs, k, recursive)
         \cup
         (IF recursive
          THEN ListDir(fs, k, TRUE)
               \cup (IF k \in DOMAIN fs /\ fs[k].mode # "DIR"
                       THEN { Entry(FileStr(k), fs[k].mode) } ELSE { })
          ELSE (IF k \in DOMAIN fs /\ fs[k].mode # "DIR"
                  THEN { Entry(FileStr(k), fs[k].mode) } ELSE { })
               \cup (IF k # << >> /\ DirExists(fs, k)
                       THEN { Entry(DirStr(k), "DIR") } ELSE { }))

(***************************************************************************)
(* glob.rs and globset                                                     *)
(***************************************************************************)

\* A scan that skips empty components, as split_glob_path does
LiteralPrefixLoopSkipsEmpty(rest, parts) ==
    LET kept == SelectSeq(rest, LAMBDA c : c # "")
        globs == { i \in 1..Len(kept) : SegHasGlob(kept[i]) }
    IN  IF globs = {} THEN [ found_glob |-> FALSE, parts |-> kept ]
        ELSE [ found_glob |-> TRUE,
               parts |-> SubSeq(kept, 1,
                           (CHOOSE i \in globs : \A x \in globs : i <= x) - 1) ]

\* glob::literal_prefix, the loop over pattern.split('/'): components are
\* pushed to parts until the first one with a glob character, which sets
\* found_glob and ends the loop
RECURSIVE LiteralPrefixLoop(_, _)
LiteralPrefixLoop(rest, parts) ==
    IF rest = << >> THEN [ found_glob |-> FALSE, parts |-> parts ]
    ELSE IF SegHasGlob(rest[1]) THEN [ found_glob |-> TRUE, parts |-> parts ]
    ELSE LiteralPrefixLoop(Tail(rest), Append(parts, rest[1]))

\* glob::literal_prefix is Some iff found_glob
HasLiteralPrefix(pattern) == LiteralPrefixLoop(pattern, << >>).found_glob

\* glob::literal_prefix: parts.join("/"), the empty string for no parts
literal_prefix(pattern) ==
    LET parts == LiteralPrefixLoop(pattern, << >>).parts
    IN  IF parts = << >> THEN EmptyStr ELSE parts

\* glob::split_glob_path, the loop over pattern.split('/'): empty
\* components are skipped; components go to base_parts until the first one
\* with a glob character, and to glob_parts from that one on
RECURSIVE SplitGlobLoop(_, _, _, _)
SplitGlobLoop(rest, base_parts, glob_parts, found_glob) ==
    IF rest = << >> THEN [ base_parts |-> base_parts, glob_parts |-> glob_parts ]
    ELSE IF rest[1] = ""
         THEN SplitGlobLoop(Tail(rest), base_parts, glob_parts, found_glob)
    ELSE IF ~found_glob /\ ~SegHasGlob(rest[1])
         THEN SplitGlobLoop(Tail(rest), Append(base_parts, rest[1]),
                            glob_parts, found_glob)
    ELSE SplitGlobLoop(Tail(rest), base_parts,
                       Append(glob_parts, rest[1]), TRUE)

\* Vec::join("/"): the empty string for no parts
JoinParts(parts) == IF parts = << >> THEN EmptyStr ELSE parts

\* glob::split_glob_path: (base_parts.join("/"), glob_parts.join("/"))
split_glob_path(pattern) ==
    LET r == SplitGlobLoop(pattern, << >>, << >>, FALSE)
    IN  << JoinParts(r.base_parts), JoinParts(r.glob_parts) >>

\* glob::extract_glob_prefix(..).unwrap_or_default(), the literal prefix
\* copy_glob strips from entry paths
extract_glob_prefix(pattern) ==
    IF HasLiteralPrefix(pattern) THEN literal_prefix(pattern) ELSE EmptyStr

\* A compiler that accepts every pattern
GlobCompilesAlways(pattern) == TRUE

\* globset::Glob::new: an unclosed character class does not compile
GlobCompiles(pattern) == \A i \in 1..Len(pattern) : pattern[i] # "["

\* GlobMatcher::is_match with globset's defaults: a separator is no
\* special character for "*", so "*" between separators matches one or
\* more segments; "**" matches any number of segments, at least one when
\* it ends the pattern.
RECURSIVE GlobMatch(_, _)
GlobMatch(p, t) ==
    IF p = << >> THEN t = << >>
    ELSE IF p[1] = "*"
         THEN \E n \in 1..Len(t) : GlobMatch(Tail(p), SubSeq(t, n + 1, Len(t)))
    ELSE IF p[1] = "**"
         THEN \E n \in (IF Len(p) = 1 THEN 1 ELSE 0)..Len(t) :
                  GlobMatch(Tail(p), SubSeq(t, n + 1, Len(t)))
    ELSE t # << >> /\ t[1] = p[1] /\ GlobMatch(Tail(p), Tail(t))

(***************************************************************************)
(* list.rs: lister                                                         *)
(***************************************************************************)

\* The root and the recursion flag of the backend listing lister issues
\* A listing rooted at the path as given, pattern or not
ListerRootPath(path) == path

ListerRoot(path) ==
    IF HasLiteralPrefix(path) THEN literal_prefix(path) ELSE path

\* A listing that always descends
ListerRecursiveAlways(path, recursive) == TRUE

ListerRecursive(path, recursive) ==
    IF HasLiteralPrefix(path) THEN TRUE ELSE recursive

\* A filter that lets every entry through
ListerFilterNone(path, entries) == entries

\* try_filter: the entries of the backend listing the stream lets through
ListerFilter(path, entries) ==
    IF HasLiteralPrefix(path)
    THEN { e \in entries : GlobMatch(path, e.path) }
    ELSE entries

(***************************************************************************)
(* Bounds and inputs                                                       *)
(***************************************************************************)

\* The longest object of the source, in chunks
MaxChunks == 2

\* The source backend: files at d/f, d/s/f and d/s/g (two entries sharing
\* the parent d/s; d/s/g has a content disposition naming "report"), an
\* empty directory d/e, an object of unknown mode u, and a file p/q/r/h
\* three directories deep.
Data(n) == [i \in 1..n |-> i]

SrcObjects ==
    (<< "d", "f" >>      :> Obj("FILE", Data(MaxChunks), "text"))
 @@ (<< "d", "s", "f" >> :> Obj("FILE", Data(1), "none"))
 @@ (<< "d", "s", "g" >> :> WithCd(Obj("FILE", Data(0), "none"), "report"))
 @@ (<< "d", "e" >>      :> Obj("DIR", << >>, "none"))
 @@ (<< "u" >>           :> Obj("Unknown", << >>, "none"))
 @@ (<< "p", "q", "r", "h" >> :> Obj("FILE", Data(1), "none"))

\* A source backend whose root is itself a file (a service rooted at one
\* object), with or without a content disposition
RootObjects(cd) == (<< >> :> WithCd(Obj("FILE", Data(1), "none"), cd))

RootBackends == { RootObjects("report"), RootObjects("none") }

\* A source backend with a directory d holding d/f, and next to it a file
\* dx whose name starts with d
PrefixObjects ==
    (<< "d", "f" >> :> Obj("FILE", Data(1), "none"))
 @@ (<< "dx" >>     :> Obj("FILE", Data(MaxChunks), "none"))

\* The source arguments copied from it: the directory d written without a
\* trailing separator, the root "", and the pattern * with no literal
\* prefix
PrefixArgs == { << "d" >>, << "" >>, << "*" >> }

\* The source arguments that name the root: "" and /
RootArgs == { << "" >>, << "", "" >> }

\* The destination backend before the copy: a directory o holding the
\* files o/f and o/k
DstObjects ==
    (<< "o", "f" >> :> Obj("FILE", << 9 >>, "none"))
 @@ (<< "o", "k" >> :> Obj("FILE", << 8 >>, "none"))

\* The source arguments of copy: d/, d, d/f, /d/./s/../f, d/s/g, x
\* (missing), u, d/e/ (an empty directory), p/, and the patterns d/*,
\* d/**/f,
\* d/[ and d/*/z (which matches nothing)
SrcArgs ==
    { << "d", "" >>, << "d" >>, << "d", "f" >>,
      << "", "d", ".", "s", "..", "f" >>, << "d", "s", "g" >>,
      << "x" >>, << "u" >>, << "d", "e", "" >>, << "p", "" >>,
      << "d", "*" >>, << "d", "**", "f" >>, << "d", "[" >>,
      << "d", "*", "z" >> }

\* The destination arguments: "", /, o/, o, o/f, n/, n/f, f
DstArgs ==
    { << "" >>, << "", "" >>, << "o", "" >>, << "o" >>, << "o", "f" >>,
      << "n", "" >>, << "n", "f" >>, << "f" >> }

(***************************************************************************)
(* The state of one copy                                                   *)
(***************************************************************************)
VARIABLES
    pc,            \* the await the copy is suspended at
    srcArg,        \* copy's source argument
    dstArg,        \* copy's destination argument
    recursive,     \* CopyOptions.recursive
    source,        \* the normalized source path
    destination,   \* the normalized destination path
    kind,          \* "file", "dir" or "glob": the copy dispatched to
    source_prefix, \* copy_entries' source_prefix
    src,           \* the objects of the source backend
    dst,           \* the objects of the destination backend
    lister,        \* the entries the entry stream has not yielded yet
    created_dirs,  \* copy_entries' created_dirs
    cur,           \* the Source being transferred (path and metadata)
    dest_path,     \* the path the transfer writes
    writers,       \* the destination writers that are open
    stream,        \* the chunks the byte stream has not yielded yet
    chunk,         \* the chunk read and not yet written
    result,        \* "none" while running, then "Ok" or the error kind
    calls,         \* every backend call of this run so far, in order
    options,       \* the options of a direct call of list: none (<< >>) or
                   \* one ListOptions with its recursive flag
    listed,        \* the entries a direct call of list has collected
    before,        \* the result and the destination of each earlier run
    other,         \* the copy that runs concurrently with this one, as it is
                   \* suspended at its await (<< >> when there is none)
    factories,     \* ChainOperatorFactory.factories: what each factory of
                   \* the list answers for the uri
    factory        \* the position of ChainOperatorFactory::load in its list

vars == << pc, srcArg, dstArg, recursive, source, destination, kind,
           source_prefix, src, dst, lister, created_dirs, cur, dest_path,
           writers, stream, chunk, result, calls, options, listed, faults,
           dir_stat, before, other, factories, factory >>

\* What one run of copy leaves alone: its arguments, the source backend,
\* the backends' behaviour and the record of the earlier runs
inputs == << srcArg, dstArg, recursive, src, options, listed, faults,
            dir_stat, before, other, factories, factory >>

NoSource == [path |-> EmptyStr, mode |-> "none", ctype |-> "none", cd |-> "none"]

\* Source::new: a path and the metadata of its stat or its entry
Source(path, mode, fs) ==
    [path |-> path, mode |-> mode,
     ctype |-> IF Key(path) \in DOMAIN fs THEN fs[Key(path)].ctype ELSE "none",
     cd |-> IF Key(path) \in DOMAIN fs THEN fs[Key(path)].cd ELSE "none"]

Call(b, op, path, res) == [b |-> b, op |-> op, path |-> path, res |-> res]

Init ==
    /\ pc = "start"
    /\ \/ srcArg \in SrcArgs /\ src = SrcObjects
       \/ srcArg \in RootArgs /\ src \in RootBackends
       \/ srcArg \in PrefixArgs /\ src = PrefixObjects
    /\ dstArg \in DstArgs
    /\ recursive \in BOOLEAN
    /\ source = EmptyStr
    /\ destination = EmptyStr
    /\ kind = "none"
    /\ source_prefix = EmptyStr
    /\ dst = DstObjects
    /\ lister = { }
    /\ created_dirs = { }
    /\ cur = NoSource
    /\ dest_path = EmptyStr
    /\ writers = << >>
    /\ stream = << >>
    /\ chunk = 0
    /\ result = "none"
    /\ calls = << >>
    /\ options = << >>
    /\ listed = << >>
    /\ faults = TRUE
    /\ dir_stat = [b \in Backends |-> "any"]
    /\ before = << >>
    /\ other = << >>
    /\ factories = << >>
    /\ factory = 1

\* An error that is swallowed: the call is issued again
FailRetried(err) == UNCHANGED << pc, result, lister, writers, stream >>

\* An error leaves copy through `?`: the error is the result, and the
\* entry stream and any open writer are dropped without being closed.
Fail(err) ==
    /\ pc' = "done"
    /\ result' = err
    /\ lister' = { }
    /\ writers' = << >>
    /\ stream' = << >>

\* Copier::copy_options up to its first await: both paths are normalized;
\* a source with glob characters goes to copy_glob, which takes the
\* pattern's literal prefix and compiles the pattern in list::lister.
CopyOptions ==
    /\ pc = "start" /\ kind = "none"
    /\ LET s == normalize_path(srcArg)
           d == normalize_path(dstArg)
       IN  /\ source' = s
           /\ destination' = d
           /\ IF has_glob_chars(s)
                THEN /\ kind' = "glob"
                     /\ source_prefix' = extract_glob_prefix(s)
                     /\ IF GlobCompiles(s)
                          THEN /\ pc' = "lister_open"
                               /\ UNCHANGED << result, lister, writers, stream >>
                          ELSE Fail("Unexpected")
                ELSE /\ pc' = "source_stat"
                     /\ UNCHANGED << kind, source_prefix, result, lister,
                                     writers, stream >>
    /\ UNCHANGED << inputs, dst, created_dirs, cur, dest_path, chunk, calls >>

\* A match with its file and directory arms swapped
SourceKindSwapped(r) ==
    IF r = "DIR" THEN "file" ELSE IF r = "FILE" THEN "dir" ELSE "unsupported"

\* copy_options: the match on the mode of the source's metadata
SourceKind(r) ==
    IF r = "DIR" THEN "dir" ELSE IF r = "FILE" THEN "file" ELSE "unsupported"

\* copy_options: self.source.stat(source) and the dispatch on its mode
SourceStat ==
    /\ pc = "source_stat"
    /\ \E r \in StatOutcomes("src", src, source) :
        /\ calls' = Append(calls, Call("src", "stat", source, r))
        /\ IF ~StatIsOk(r) THEN
                /\ Fail(r)
                /\ UNCHANGED << kind, source_prefix, cur >>
           ELSE IF SourceKind(r) = "dir" THEN
                /\ kind' = "dir"
                /\ source_prefix' = source
                /\ cur' = Source(source, r, src)
                /\ pc' = "lister_open"
                /\ UNCHANGED << result, lister, writers, stream >>
           ELSE IF SourceKind(r) = "file" THEN
                /\ kind' = "file"
                /\ cur' = Source(source, r, src)
                /\ pc' = "file_dest_stat"
                /\ UNCHANGED << source_prefix, result, lister, writers, stream >>
           ELSE /\ Fail("Unsupported")
                /\ UNCHANGED << kind, source_prefix, cur >>
    /\ UNCHANGED << inputs, source, destination, dst, created_dirs,
                    dest_path, chunk >>

\* The backend listing issued: Operator::lister and lister_options
\* without recursion, or lister_options with recursive set
ListOp(rec) == IF rec THEN "list_recursive" ELSE "list"

ListOps == { "list", "list_recursive" }

\* list::lister: the backend listing copy_dir and copy_glob open
\* (copy_glob passes no options, copy_dir passes its recursive flag)
ListerOpen ==
    /\ pc = "lister_open"
    /\ LET root == ListerRoot(source)
           rec  == ListerRecursive(source, IF kind = "glob" THEN FALSE ELSE recursive)
       IN  \E r \in { "ok" } \cup Faults :
            /\ calls' = Append(calls, Call("src", ListOp(rec), root, r))
            /\ IF r = "ok"
                 THEN /\ lister' = ListerFilter(source, BackendList(src, root, rec))
                      /\ pc' = "dest_stat"
                      /\ UNCHANGED << result, writers, stream >>
                 ELSE Fail(r)
    /\ UNCHANGED << inputs, source, destination, kind, source_prefix, dst,
                    created_dirs, cur, dest_path, chunk >>

\* A set of created directories that starts empty
InitialCreatedDirsEmpty(dest) == { }

\* copy_entries: created_dirs = HashSet::new() with destination.clone()
\* inserted, the destination marked as already created
InitialCreatedDirs(dest) == { dest }

\* A destination that counts as missing whenever its stat failed
DestMissingOnAnyError(r) == ~StatIsOk(r)

\* copy_entries, copy_file: Err(e) if e.kind() == ErrorKind::NotFound, the
\* one stat error that means the destination is missing
DestMissing(r) == r = "NotFound"

\* copy_entries: the stat of the destination and what it decides
EntriesDestStat ==
    /\ pc = "dest_stat"
    /\ \E r \in StatOutcomes("dst", dst, destination) :
        /\ calls' = Append(calls, Call("dst", "stat", destination, r))
        /\ IF StatIsOk(r) /\ StatIsFile(r) THEN
                /\ Fail("NotADirectory")
                /\ UNCHANGED created_dirs
           ELSE IF StatIsOk(r) THEN
                /\ created_dirs' = InitialCreatedDirs(destination)
                /\ pc' = "next_entry"
                /\ UNCHANGED << result, lister, writers, stream >>
           ELSE IF DestMissing(r) THEN
                /\ pc' = "create_root"
                /\ UNCHANGED << created_dirs, result, lister, writers, stream >>
           ELSE /\ Fail(r)
                /\ UNCHANGED created_dirs
    /\ UNCHANGED << inputs, source, destination, kind, source_prefix, dst,
                    cur, dest_path, chunk >>

\* copy_entries: create_dir(format!("{}/", destination)) for a missing
\* destination, then the destination is marked as created
CreateRoot ==
    /\ pc = "create_root"
    /\ LET p == PushSlash(destination) IN
       \E r \in CreateDirOutcomes(p) :
        /\ calls' = Append(calls, Call("dst", "create_dir", p, r))
        /\ IF r = "ok"
             THEN /\ dst' = CreateDirEffect(dst, p)
                  /\ created_dirs' = InitialCreatedDirs(destination)
                  /\ pc' = "next_entry"
                  /\ UNCHANGED << result, lister, writers, stream >>
             ELSE /\ Fail(r)
                  /\ UNCHANGED << dst, created_dirs >>
    /\ UNCHANGED << inputs, source, destination, kind, source_prefix,
                    cur, dest_path, chunk >>

\* A relative path that keeps the source prefix
RelativePathWhole(entry_path, prefix) == entry_path

\* A relative path that keeps the entry's last segment only
RelativePathFlat(entry_path, prefix) == << entry_path[Len(entry_path)] >>

\* A relative path that is stripped of as many components as the prefix
\* has, whether or not the prefix starts the entry path
RelativePathStripped(entry_path, prefix) ==
    TrimStartSlashes(StripPrefix(entry_path, prefix))

\* copy_entries: the path of an entry relative to the source prefix; the
\* whole entry path when the prefix is empty or does not start it
RelativePath(entry_path, prefix) ==
    IF IsEmptyStr(prefix) THEN entry_path
    ELSE IF CanStripPrefix(entry_path, prefix)
         THEN TrimStartSlashes(StripPrefix(entry_path, prefix))
         ELSE entry_path

\* copy_entries: destination.join(&relative_path)
EntryDestPath(dest, entry_path, prefix) ==
    Join(dest, RelativePath(entry_path, prefix))

\* A guard that forgets created_dirs
NeedsCreateDirUnguarded(created, dp) == HasParent(dp)

\* A guard that takes every parent for created
NeedsCreateDirNever(created, dp) == FALSE

\* copy_entries: the guard of the loop's create_dir, a parent that is not
\* in created_dirs
NeedsCreateDir(created, dp) ==
    HasParent(dp) /\ ~(\E d \in created : PathEq(d, Parent(dp)))

\* A check that takes no entry for a directory
IsDirEntryNever(e) == FALSE

\* copy_entries: entry.metadata().is_dir(), the entries the loop skips
IsDirEntry(e) == e.mode = "DIR"

\* copy_entries: one turn of `while let Some(entry) = lister.try_next()`,
\* up to the next await.  The stream yields its entries in any order.
NextEntry ==
    /\ pc = "next_entry"
    /\ \/ /\ faults
          /\ calls' = Append(calls, Call("src", "next", source, BackendError))
          /\ Fail(BackendError)
          /\ UNCHANGED << cur, dest_path >>
       \/ /\ lister = { }
          /\ calls' = Append(calls, Call("src", "next", source, "end"))
          /\ pc' = "done"
          /\ result' = "Ok"
          /\ UNCHANGED << lister, writers, stream, cur, dest_path >>
       \/ \E e \in lister :
          /\ calls' = Append(calls, Call("src", "next", e.path, "ok"))
          /\ lister' = lister \ { e }
          /\ UNCHANGED << result, writers, stream >>
          /\ IF IsDirEntry(e)
               THEN /\ pc' = "next_entry"
                    /\ UNCHANGED << cur, dest_path >>
               ELSE LET dp == EntryDestPath(destination, e.path, source_prefix) IN
                    /\ cur' = Source(e.path, e.mode, src)
                    /\ dest_path' = dp
                    /\ pc' = IF NeedsCreateDir(created_dirs, dp)
                               THEN "create_parent" ELSE "reader_open"
    /\ UNCHANGED << inputs, source, destination, kind, source_prefix, dst,
                    created_dirs, chunk >>

\* copy_entries: create_dir(format!("{}/", parent)), then the parent is
\* recorded in created_dirs
CreateParent ==
    /\ pc = "create_parent"
    /\ LET parent == Parent(dest_path)
           p == PushSlash(parent)
       IN  \E r \in CreateDirOutcomes(p) :
            /\ calls' = Append(calls, Call("dst", "create_dir", p, r))
            /\ IF r = "ok"
                 THEN /\ dst' = CreateDirEffect(dst, p)
                      /\ created_dirs' = created_dirs \cup { parent }
                      /\ pc' = "reader_open"
                      /\ UNCHANGED << result, lister, writers, stream >>
                 ELSE /\ Fail(r)
                      /\ UNCHANGED << dst, created_dirs >>
    /\ UNCHANGED << inputs, source, destination, kind, source_prefix,
                    cur, dest_path, chunk >>

\* A name that prefers the content disposition to the path
NamePrefersCd(s) == IF s.cd # "none" THEN s.cd ELSE FileName(s.path)

\* Source::name: the last component of the path, else the filename of the
\* content disposition
HasName(s) == HasFileName(s.path) \/ s.cd # "none"

Name(s) == IF HasFileName(s.path) THEN FileName(s.path) ELSE s.cd

\* A destination that is never joined with the source's name
FileDestinationLiteral(r, dest, s) == dest

\* A destination that is always joined with the source's name
FileDestinationJoined(r, dest, s) == Join(dest, << Name(s) >>)

\* copy_file: the path written, by the stat of the destination
FileDestination(r, dest, s) ==
    IF StatIsDir(r) THEN Join(dest, << Name(s) >>) ELSE dest

\* copy_file: the stat of the destination and what it decides
FileDestStat ==
    /\ pc = "file_dest_stat"
    /\ \E r \in StatOutcomes("dst", dst, destination) :
        /\ calls' = Append(calls, Call("dst", "stat", destination, r))
        /\ IF StatIsOk(r) /\ StatIsDir(r) /\ ~HasName(cur) THEN
                /\ Fail("Unexpected")
                /\ UNCHANGED dest_path
           ELSE IF StatIsOk(r) THEN
                /\ dest_path' = FileDestination(r, destination, cur)
                /\ pc' = "reader_open"
                /\ UNCHANGED << result, lister, writers, stream >>
           ELSE IF DestMissing(r) THEN
                /\ dest_path' = destination
                /\ pc' = IF HasParent(destination)
                           THEN "file_create_parent" ELSE "reader_open"
                /\ UNCHANGED << result, lister, writers, stream >>
           ELSE /\ Fail(r)
                /\ UNCHANGED dest_path
    /\ UNCHANGED << inputs, source, destination, kind, source_prefix, dst,
                    created_dirs, cur, chunk >>

\* copy_file: the path handed to create_dir, parent.as_str()
FileParentArg(dest) == Parent(dest)

\* copy_file: create_dir of the missing destination's parent
FileCreateParent ==
    /\ pc = "file_create_parent"
    /\ LET p == FileParentArg(destination) IN
       \E r \in CreateDirOutcomes(p) :
        /\ calls' = Append(calls, Call("dst", "create_dir", p, r))
        /\ IF r = "ok"
             THEN /\ dst' = CreateDirEffect(dst, p)
                  /\ pc' = "reader_open"
                  /\ UNCHANGED << result, lister, writers, stream >>
             ELSE /\ Fail(r)
                  /\ UNCHANGED dst
    /\ UNCHANGED << inputs, source, destination, kind, source_prefix,
                    created_dirs, cur, dest_path, chunk >>

\* A reader that takes the object out of the backend, as a move would
ReaderEffectTakes(fs, path) ==
    [k \in DOMAIN fs \ { Key(path) } |-> fs[k]]

\* do_copy_file: self.source.reader(path) only reads: the source backend
\* holds after the call what it held before
ReaderEffect(fs, path) == fs

\* do_copy_file: self.source.reader(path)
ReaderOpen ==
    /\ pc = "reader_open"
    /\ \E r \in { "ok" } \cup Faults :
        /\ calls' = Append(calls, Call("src", "reader", cur.path, r))
        /\ IF r = "ok"
             THEN /\ src' = ReaderEffect(src, cur.path)
                  /\ pc' = "writer_open"
                  /\ UNCHANGED << result, lister, writers, stream >>
             ELSE /\ Fail(r)
                  /\ UNCHANGED src
    /\ UNCHANGED << srcArg, dstArg, recursive, options, listed, faults,
                    dir_stat, before, other, factories, factory, source,
                    destination, kind, source_prefix, dst, created_dirs, cur,
                    dest_path, chunk >>

\* A writer as opened: its path, the content type set on it, nothing
\* written yet
NewWriter(path, s) == [path |-> path, ctype |-> s.ctype, buf |-> << >>]

\* do_copy_file: self.destination.writer_with(destination) with the
\* source's content type
WriterOpen ==
    /\ pc = "writer_open"
    /\ \E r \in WriterOutcomes(dest_path) :
        /\ calls' = Append(calls, Call("dst", "writer", dest_path, r))
        /\ IF r = "ok"
             THEN /\ writers' = Append(writers, NewWriter(dest_path, cur))
                  /\ pc' = "stream_open"
                  /\ UNCHANGED << result, lister, stream >>
             ELSE Fail(r)
    /\ UNCHANGED << inputs, source, destination, kind, source_prefix, dst,
                    created_dirs, cur, dest_path, chunk >>

\* The chunks the byte stream of an object yields, in order
SourceChunks(fs, path) ==
    IF Key(path) \in DOMAIN fs THEN fs[Key(path)].data ELSE << >>

\* do_copy_file: reader.into_bytes_stream(..)
StreamOpen ==
    /\ pc = "stream_open"
    /\ \E r \in { "ok" } \cup Faults :
        /\ calls' = Append(calls, Call("src", "stream", cur.path, r))
        /\ IF r = "ok"
             THEN /\ stream' = SourceChunks(src, cur.path)
                  /\ pc' = "read"
                  /\ UNCHANGED << result, lister, writers >>
             ELSE Fail(r)
    /\ UNCHANGED << inputs, source, destination, kind, source_prefix, dst,
                    created_dirs, cur, dest_path, chunk >>

\* The io::ErrorKind of a failed read of the byte stream
IoErrorKinds == { "PermissionDenied", "Other" }

\* IoErrorExt::into_opendal_error: the kinds with a counterpart keep it,
\* every other kind becomes Unexpected
into_opendal_error(k) ==
    IF k \in { "NotFound", "PermissionDenied", "AlreadyExists",
               "IsADirectory", "NotADirectory" }
    THEN k ELSE "Unexpected"

\* A stream taken to be over while its last chunk is still unread
StreamEndedEarly(st) == Len(st) <= 1

\* do_copy_file: `while let Some(chunk) = stream.try_next()` leaves the
\* loop when the stream yields None, after its last chunk
StreamEnded(st) == st = << >>

\* do_copy_file: stream.try_next(), the next chunk or the end
ReadChunk ==
    /\ pc = "read"
    /\ \/ \E k \in IoErrorKinds :
          /\ faults
          /\ calls' = Append(calls, Call("src", "read", cur.path, k))
          /\ Fail(into_opendal_error(k))
          /\ UNCHANGED chunk
       \/ /\ StreamEnded(stream)
          /\ calls' = Append(calls, Call("src", "read", cur.path, "end"))
          /\ pc' = "close"
          /\ UNCHANGED << result, lister, writers, stream, chunk >>
       \/ /\ ~StreamEnded(stream)
          /\ calls' = Append(calls, Call("src", "read", cur.path, "ok"))
          /\ chunk' = Head(stream)
          /\ stream' = Tail(stream)
          /\ pc' = "write"
          /\ UNCHANGED << result, lister, writers >>
    /\ UNCHANGED << inputs, source, destination, kind, source_prefix, dst,
                    created_dirs, cur, dest_path >>

\* A write that puts the chunk in front of what was written
WriteEffectReordered(ws, c) ==
    [ws EXCEPT ![Len(ws)].buf = << c >> \o @]

\* Writer::write: the chunk is appended to what the last opened writer holds
WriteEffect(ws, c) ==
    [ws EXCEPT ![Len(ws)].buf = Append(@, c)]

\* do_copy_file: writer.write(chunk)
WriteChunk ==
    /\ pc = "write"
    /\ \E r \in { "ok" } \cup Faults :
        /\ calls' = Append(calls, Call("dst", "write", dest_path, r))
        /\ IF r = "ok"
             THEN /\ writers' = WriteEffect(writers, chunk)
                  /\ pc' = "read"
                  /\ UNCHANGED << result, lister, stream >>
             ELSE Fail(r)
    /\ UNCHANGED << inputs, source, destination, kind, source_prefix, dst,
                    created_dirs, cur, dest_path, chunk >>

\* A close that appends to an object that is already there
CloseEffectAppend(fs, w) ==
    LET k == Key(w.path) IN
    Put(fs, k, Obj("FILE", (IF k \in DOMAIN fs THEN fs[k].data ELSE << >>) \o w.buf,
                   w.ctype))

\* A close that finalizes into the destination as it was before the copy
CloseEffectAlone(fs, w) == Put(DstObjects, Key(w.path), Obj("FILE", w.buf, w.ctype))

\* Writer::close: the object becomes what the writer holds
CloseEffect(fs, w) == Put(fs, Key(w.path), Obj("FILE", w.buf, w.ctype))

\* A close that leaves the writer open
WritersAfterCloseLeaked(ws) == ws

\* The writers left open once the last opened one is closed
WritersAfterClose(ws) == SubSeq(ws, 1, Len(ws) - 1)

\* do_copy_file: writer.close(); then copy_file returns, and copy_entries
\* goes on to its next entry
CloseWriter ==
    /\ pc = "close"
    /\ \E r \in { "ok" } \cup Faults :
        /\ calls' = Append(calls, Call("dst", "close", dest_path, r))
        /\ IF r = "ok"
             THEN /\ dst' = CloseEffect(dst, writers[Len(writers)])
                  /\ writers' = WritersAfterClose(writers)
                  /\ IF kind = "file"
                       THEN pc' = "done" /\ result' = "Ok"
                       ELSE pc' = "next_entry" /\ UNCHANGED result
                  /\ UNCHANGED << lister, stream >>
             ELSE /\ Fail(r)
                  /\ UNCHANGED dst
    /\ UNCHANGED << inputs, source, destination, kind, source_prefix,
                    created_dirs, cur, dest_path, chunk >>

Next ==
    \/ CopyOptions
    \/ SourceStat
    \/ ListerOpen
    \/ EntriesDestStat
    \/ CreateRoot
    \/ NextEntry
    \/ CreateParent
    \/ FileDestStat
    \/ FileCreateParent
    \/ ReaderOpen
    \/ WriterOpen
    \/ StreamOpen
    \/ ReadChunk
    \/ WriteChunk
    \/ CloseWriter

Spec == Init /\ [][Next]_vars

(***************************************************************************)
(* The caller runs the identical copy again.  A first run on backends      *)
(* that do not fail gives the destination one uninterrupted run leaves;    *)
(* the same copy is then run on the destination as it was at first, with   *)
(* backends that may fail, and when that run is over, failed or not, it    *)
(* is run once more on what is there, the backends not failing.  A         *)
(* backend answers stat for a directory without separator one way only.    *)
(***************************************************************************)
InitRetry ==
    /\ pc = "start"
    /\ srcArg \in SrcArgs
    /\ dstArg \in DstArgs
    /\ recursive \in BOOLEAN
    /\ source = EmptyStr
    /\ destination = EmptyStr
    /\ kind = "none"
    /\ source_prefix = EmptyStr
    /\ src = SrcObjects
    /\ dst = DstObjects
    /\ lister = { }
    /\ created_dirs = { }
    /\ cur = NoSource
    /\ dest_path = EmptyStr
    /\ writers = << >>
    /\ stream = << >>
    /\ chunk = 0
    /\ result = "none"
    /\ calls = << >>
    /\ options = << >>
    /\ listed = << >>
    /\ faults = FALSE
    /\ dir_stat \in [Backends -> { "DIR", "NotFound" }]
    /\ before = << >>
    /\ other = << >>
    /\ factories = << >>
    /\ factory = 1

\* copy is called again with the same arguments, on destination objects d
Again(d) ==
    /\ pc = "done"
    /\ pc' = "start"
    /\ dst' = d
    /\ before' = Append(before, [result |-> result, dst |-> dst])
    /\ source' = EmptyStr
    /\ destination' = EmptyStr
    /\ kind' = "none"
    /\ source_prefix' = EmptyStr
    /\ lister' = { }
    /\ created_dirs' = { }
    /\ cur' = NoSource
    /\ dest_path' = EmptyStr
    /\ writers' = << >>
    /\ stream' = << >>
    /\ chunk' = 0
    /\ result' = "none"
    /\ calls' = << >>
    /\ UNCHANGED << srcArg, dstArg, recursive, src, options, listed, dir_stat,
                    other, factories, factory >>

\* After the uninterrupted run succeeded: the same copy, on the
\* destination as it was, with backends that may fail
RunInterrupted ==
    /\ Len(before) = 0 /\ result = "Ok"
    /\ faults' = TRUE
    /\ Again(DstObjects)

\* After that run: the caller's retry, on backends that do not fail
RunRetry ==
    /\ Len(before) = 1
    /\ faults' = FALSE
    /\ Again(dst)

NextRetry ==
    \/ Next
    \/ RunInterrupted
    \/ RunRetry

SpecRetry == InitRetry /\ [][NextRetry]_vars

(***************************************************************************)
(* list.rs: list called directly, with a path and optional ListOptions     *)
(***************************************************************************)

\* The paths list is called with: the source arguments that are written
\* in normal form (list does not normalize its path)
ListArgs == { p \in SrcArgs : normalize_path(p) = p }

\* None, Some(recursive: false), Some(recursive: true)
ListOptionsArgs == { << >>, << FALSE >>, << TRUE >> }

\* The recursive flag of the caller's options; ListOptions::default() has
\* it unset, and Operator::lister does not descend
OptionsRecursive(o) == IF o = << >> THEN FALSE ELSE o[1]

InitList ==
    /\ pc = "start"
    /\ srcArg \in ListArgs
    /\ dstArg = EmptyStr
    /\ recursive = FALSE
    /\ source = EmptyStr
    /\ destination = EmptyStr
    /\ kind = "list"
    /\ source_prefix = EmptyStr
    /\ src = SrcObjects
    /\ dst = DstObjects
    /\ lister = { }
    /\ created_dirs = { }
    /\ cur = NoSource
    /\ dest_path = EmptyStr
    /\ writers = << >>
    /\ stream = << >>
    /\ chunk = 0
    /\ result = "none"
    /\ calls = << >>
    /\ options \in ListOptionsArgs
    /\ listed = << >>
    /\ faults = TRUE
    /\ dir_stat = [b \in Backends |-> "any"]
    /\ before = << >>
    /\ other = << >>
    /\ factories = << >>
    /\ factory = 1

\* A filter that drops the directory entries
ListerPassesFiles(path, e) == e.mode # "DIR"

\* A filter that lets every entry through
ListerPassesAll(path, e) == TRUE

\* try_filter, on one entry the backend stream yields
ListerPasses(path, e) == e \in ListerFilter(path, { e })

\* list::lister: a pattern is compiled, then the backend listing is
\* opened; its entries are filtered as the stream is polled
ListLister ==
    /\ pc = "start" /\ kind = "list"
    /\ source' = srcArg
    /\ IF HasLiteralPrefix(srcArg) /\ ~GlobCompiles(srcArg)
         THEN /\ Fail("Unexpected")
              /\ UNCHANGED calls
         ELSE LET root == ListerRoot(srcArg)
                  rec  == ListerRecursive(srcArg, OptionsRecursive(options))
              IN  \E r \in { "ok" } \cup Faults :
                   /\ calls' = Append(calls, Call("src", ListOp(rec), root, r))
                   /\ IF r = "ok"
                        THEN /\ lister' = BackendList(src, root, rec)
                             /\ pc' = "collect"
                             /\ UNCHANGED << result, writers, stream >>
                        ELSE Fail(r)
    /\ UNCHANGED << inputs, destination, kind, source_prefix, dst,
                    created_dirs, cur, dest_path, chunk >>

\* list: try_collect, one entry of the backend stream at a time, in the
\* order the backend yields them (any order); an entry the filter lets
\* through is pushed on the Vec, an error ends the collection
ListCollect ==
    /\ pc = "collect"
    /\ \/ /\ faults
          /\ calls' = Append(calls, Call("src", "next", source, BackendError))
          /\ Fail(BackendError)
          /\ UNCHANGED listed
       \/ /\ lister = { }
          /\ calls' = Append(calls, Call("src", "next", source, "end"))
          /\ pc' = "done"
          /\ result' = "Ok"
          /\ UNCHANGED << lister, writers, stream, listed >>
       \/ \E e \in lister :
          /\ calls' = Append(calls, Call("src", "next", e.path, "ok"))
          /\ lister' = lister \ { e }
          /\ listed' = IF ListerPasses(srcArg, e) THEN Append(listed, e) ELSE listed
          /\ UNCHANGED << pc, result, writers, stream >>
    /\ UNCHANGED << srcArg, dstArg, recursive, src, options, faults, dir_stat,
                    before, other, factories, factory, source, destination,
                    kind, source_prefix, dst, created_dirs, cur, dest_path,
                    chunk >>

NextList ==
    \/ ListLister
    \/ ListCollect

SpecList == InitList /\ [][NextList]_vars

\* The entry points of the library together: one call of copy or of list
InitAny == Init \/ InitList

NextAny ==
    \/ Next
    \/ NextList

SpecAny == InitAny /\ [][NextAny]_vars

(***************************************************************************)
(* The path functions on their own: normalize_path and literal_prefix      *)
(* applied to every string of at most MaxSegments segments                 *)
(***************************************************************************)

MaxSegments == 3

\* The segments the strings are built from: the empty one (two separators
\* in a row, or one at either end), the dot segments, names and segments
\* with a glob character
PathSegments == { "", ".", "..", "a", "b", "*", "**" }

PathArgs == UNION { [1..n -> PathSegments] : n \in 1..MaxSegments }

InitPath ==
    /\ pc = "start"
    /\ srcArg \in PathArgs
    /\ dstArg = EmptyStr
    /\ recursive = FALSE
    /\ source = EmptyStr
    /\ destination = EmptyStr
    /\ kind = "path"
    /\ source_prefix = EmptyStr
    /\ src = SrcObjects
    /\ dst = DstObjects
    /\ lister = { }
    /\ created_dirs = { }
    /\ cur = NoSource
    /\ dest_path = EmptyStr
    /\ writers = << >>
    /\ stream = << >>
    /\ chunk = 0
    /\ result = "none"
    /\ calls = << >>
    /\ options = << >>
    /\ listed = << >>
    /\ faults = FALSE
    /\ dir_stat = [b \in Backends |-> "any"]
    /\ before = << >>
    /\ other = << >>
    /\ factories = << >>
    /\ factory = 1

\* normalize_path(path): the normalized path is kept in source
NormalizePath ==
    /\ pc = "start" /\ kind = "path"
    /\ source' = normalize_path(srcArg)
    /\ pc' = "normalized"
    /\ UNCHANGED << inputs, destination, kind, source_prefix, dst, lister,
                    created_dirs, cur, dest_path, writers, stream, chunk,
                    result, calls >>

\* normalize_path of a path that normalize_path returned, kept in
\* destination
NormalizeAgain ==
    /\ pc = "normalized" /\ kind = "path"
    /\ destination' = normalize_path(source)
    /\ pc' = "renormalized"
    /\ UNCHANGED << inputs, source, kind, source_prefix, dst, lister,
                    created_dirs, cur, dest_path, writers, stream, chunk,
                    result, calls >>

\* literal_prefix(pattern): Some(prefix) is kept in result and
\* source_prefix, None in result
LiteralPrefix ==
    /\ pc = "start" /\ kind = "path"
    /\ IF HasLiteralPrefix(srcArg)
         THEN /\ result' = "Some"
              /\ source_prefix' = literal_prefix(srcArg)
         ELSE /\ result' = "None"
              /\ UNCHANGED source_prefix
    /\ pc' = "prefixed"
    /\ UNCHANGED << inputs, source, destination, kind, dst, lister,
                    created_dirs, cur, dest_path, writers, stream, chunk,
                    calls >>

\* split_glob_path(pattern): the base is kept in source_prefix, the
\* remainder in dest_path
SplitGlobPath ==
    /\ pc = "start" /\ kind = "path"
    /\ source_prefix' = split_glob_path(srcArg)[1]
    /\ dest_path' = split_glob_path(srcArg)[2]
    /\ pc' = "split"
    /\ UNCHANGED << inputs, source, destination, kind, dst, lister,
                    created_dirs, cur, writers, stream, chunk, result,
                    calls >>

NextPath ==
    \/ NormalizePath
    \/ NormalizeAgain
    \/ LiteralPrefix
    \/ SplitGlobPath

SpecPath == InitPath /\ [][NextPath]_vars

(***************************************************************************)
(* Two copies at once on the same destination: each is a future of its own *)
(* with its own locals, and the two are polled in turn, switching at the   *)
(* awaits.  The variables of one copy hold the copy that runs; `other`     *)
(* holds the locals of the one that is suspended.                          *)
(***************************************************************************)

\* A source backend with two directories whose files have a like-named
\* parent: a/s/f and b/s/g
PairObjects ==
    (<< "a", "s", "f" >> :> Obj("FILE", Data(1), "text"))
 @@ (<< "b", "s", "g" >> :> Obj("FILE", Data(1), "none"))

\* The sources of the two copies, and their common destination: the
\* directory o/ that exists and n/ that is missing
PairArgs == { << "a", "" >>, << "b", "" >> }

PairDstArgs == { << "o", "" >>, << "n", "" >> }

\* The locals of a copy as copy_options starts
Suspended(id, arg) ==
    [ id            |-> id,
      pc            |-> "start",
      srcArg        |-> arg,
      source        |-> EmptyStr,
      kind          |-> "none",
      source_prefix |-> EmptyStr,
      lister        |-> { },
      created_dirs  |-> { },
      cur           |-> NoSource,
      dest_path     |-> EmptyStr,
      writers       |-> << >>,
      stream        |-> << >>,
      chunk         |-> 0,
      result        |-> "none",
      calls         |-> << >> ]

InitPair ==
    /\ pc = "start"
    /\ srcArg \in PairArgs
    /\ dstArg \in PairDstArgs
    /\ recursive = TRUE
    /\ source = EmptyStr
    /\ destination = EmptyStr
    /\ kind = "none"
    /\ source_prefix = EmptyStr
    /\ src = PairObjects
    /\ dst = DstObjects
    /\ lister = { }
    /\ created_dirs = { }
    /\ cur = NoSource
    /\ dest_path = EmptyStr
    /\ writers = << >>
    /\ stream = << >>
    /\ chunk = 0
    /\ result = "none"
    /\ calls = << >>
    /\ options = << >>
    /\ listed = << >>
    /\ faults = FALSE
    /\ dir_stat = [b \in Backends |-> "any"]
    /\ before = << >>
    /\ \E arg \in PairArgs : other = Suspended(2, arg)
    /\ factories = << >>
    /\ factory = 1

\* A set of created directories that both copies share
SharedCreatedDirs(mine, theirs) == mine \cup theirs

\* copy_entries: `let mut created_dirs = HashSet::new()`, a local of the
\* call: the copy that resumes finds its own set, whatever the other copy
\* has put in its own
OwnedCreatedDirs(mine, theirs) == mine

\* The copy that runs is suspended at its await and the other one is
\* resumed.  The backends and the destination argument are common to both.
Switch ==
    /\ other # << >>
    /\ other' = [ id            |-> 3 - other.id,
                  pc            |-> pc,
                  srcArg        |-> srcArg,
                  source        |-> source,
                  kind          |-> kind,
                  source_prefix |-> source_prefix,
                  lister        |-> lister,
                  created_dirs  |-> created_dirs,
                  cur           |-> cur,
                  dest_path     |-> dest_path,
                  writers       |-> writers,
                  stream        |-> stream,
                  chunk         |-> chunk,
                  result        |-> result,
                  calls         |-> calls ]
    /\ pc' = other.pc
    /\ srcArg' = other.srcArg
    /\ source' = other.source
    /\ kind' = other.kind
    /\ source_prefix' = other.source_prefix
    /\ lister' = other.lister
    /\ created_dirs' = OwnedCreatedDirs(other.created_dirs, created_dirs)
    /\ cur' = other.cur
    /\ dest_path' = other.dest_path
    /\ writers' = other.writers
    /\ stream' = other.stream
    /\ chunk' = other.chunk
    /\ result' = other.result
    /\ calls' = other.calls
    /\ UNCHANGED << dstArg, recursive, destination, src, dst, options, listed,
                    faults, dir_stat, before, factories, factory >>

\* The steps of a directory copy, taken by whichever copy runs, and the
\* switch between the two
NextPair ==
    \/ CopyOptions
    \/ SourceStat
    \/ ListerOpen
    \/ EntriesDestStat
    \/ CreateRoot
    \/ NextEntry
    \/ CreateParent
    \/ ReaderOpen
    \/ WriterOpen
    \/ StreamOpen
    \/ ReadChunk
    \/ WriteChunk
    \/ CloseWriter
    \/ Switch

SpecPair == InitPair /\ [][NextPair]_vars

(***************************************************************************)
(* ChainOperatorFactory: a list of factories, each with the outcome it     *)
(* answers for the uri, and one call of load on the chain                  *)
(***************************************************************************)

MaxFactories == 3

\* What a factory's load returns: an operator, or an error of some kind.
\* ProfileOperatorFactory answers Unsupported for a profile it does not
\* have and ConfigInvalid for a uri it cannot parse
FactoryOutcomes == { "Ok", "Unsupported", "ConfigInvalid", "Unexpected" }

Chains == UNION { [1..n -> FactoryOutcomes] : n \in 0..MaxFactories }

InitChain ==
    /\ pc = "start"
    /\ srcArg = EmptyStr
    /\ dstArg = EmptyStr
    /\ recursive = FALSE
    /\ source = EmptyStr
    /\ destination = EmptyStr
    /\ kind = "chain"
    /\ source_prefix = EmptyStr
    /\ src = SrcObjects
    /\ dst = DstObjects
    /\ lister = { }
    /\ created_dirs = { }
    /\ cur = NoSource
    /\ dest_path = EmptyStr
    /\ writers = << >>
    /\ stream = << >>
    /\ chunk = 0
    /\ result = "none"
    /\ calls = << >>
    /\ options = << >>
    /\ listed = << >>
    /\ faults = FALSE
    /\ dir_stat = [b \in Backends |-> "any"]
    /\ before = << >>
    /\ other = << >>
    /\ factories \in Chains
    /\ factory = 1

\* A chain that goes on to the next factory after any error
FallsThroughOnAnyError(r) == r # "Ok"

\* ChainOperatorFactory::load: `Err(e) if e.kind() == ErrorKind::Unsupported
\* => continue`
FallsThrough(r) == r = "Unsupported"

\* One turn of the loop of ChainOperatorFactory::load: the factory at the
\* loop's position is asked; an operator or an error that is not
\* Unsupported is returned, on Unsupported the loop goes on
FactoryLoad ==
    /\ pc = "start" /\ kind = "chain"
    /\ factory <= Len(factories)
    /\ LET r == factories[factory] IN
         /\ calls' = Append(calls, Call(factory, "load", srcArg, r))
         /\ IF FallsThrough(r)
              THEN /\ factory' = factory + 1
                   /\ UNCHANGED << pc, result >>
              ELSE /\ result' = r
                   /\ pc' = "done"
                   /\ UNCHANGED factory
    /\ UNCHANGED << srcArg, dstArg, recursive, source, destination, kind,
                    source_prefix, src, dst, lister, created_dirs, cur,
                    dest_path, writers, stream, chunk, options, listed,
                    faults, dir_stat, before, other, factories >>

\* ChainOperatorFactory::load after the loop: no factory is left and none
\* has returned
ChainUnsupported ==
    /\ pc = "start" /\ kind = "chain"
    /\ factory > Len(factories)
    /\ result' = "Unsupported"
    /\ pc' = "done"
    /\ UNCHANGED << srcArg, dstArg, recursive, source, destination, kind,
                    source_prefix, src, dst, lister, created_dirs, cur,
                    dest_path, writers, stream, chunk, calls, options,
                    listed, faults, dir_stat, before, other, factories,
                    factory >>

NextChain ==
    \/ FactoryLoad
    \/ ChainUnsupported

SpecChain == InitChain /\ [][NextChain]_vars

(***************************************************************************)
(* Properties                                                              *)
(***************************************************************************)

\* What the log of backend calls says
IsCall(i, b, op) == calls[i].b = b /\ calls[i].op = op

DstCreateDirs == { i \in DOMAIN calls : IsCall(i, "dst", "create_dir") }

DstWriterOpens == { i \in DOMAIN calls : IsCall(i, "dst", "writer") }

\* The calls that change the destination or prepare a change
DstMutations ==
    { i \in DOMAIN calls :
        calls[i].b = "dst" /\ calls[i].op \in { "create_dir", "writer", "write", "close" } }

EntriesCopy == kind \in { "dir", "glob" }

\* A backend call that failed.  A destination stat answering NotFound only
\* says the destination is missing.
CallFailed(c) ==
    /\ c.res \notin { "ok", "end", "FILE", "DIR", "Unknown" }
    /\ ~(c.b = "dst" /\ c.op = "stat" /\ c.res = "NotFound")

\* C1: during one directory or glob copy create_dir is issued at most once
\* for any destination directory, however many entries share it as their
\* parent and in whatever order the listing yields them.
C1_CreateDirAtMostOnce ==
    EntriesCopy =>
        \A i, j \in DstCreateDirs :
            Key(calls[i].path) = Key(calls[j].path) => i = j

\* C1 witness: a finished copy that wrote two entries with the same
\* non-root parent directory under the destination, created by one
\* create_dir
C1_Witness ==
    /\ EntriesCopy /\ pc = "done" /\ result = "Ok"
    /\ \E i, j \in DstWriterOpens : \E k \in DstCreateDirs :
        /\ i < j /\ k < i
        /\ Key(Parent(calls[i].path)) = Key(calls[k].path)
        /\ Key(Parent(calls[j].path)) = Key(calls[k].path)
        /\ Key(calls[k].path) # Key(destination)

\* C2: within one directory or glob copy at most one destination writer
\* is open at any time, and every create_dir, reader open and writer open
\* that follows a writer open comes after that writer's close.
C2_Sequential ==
    EntriesCopy =>
        /\ Len(writers) <= 1
        /\ \A i \in DstWriterOpens : \A j \in DOMAIN calls :
            ( /\ i < j /\ calls[i].res = "ok"
              /\ calls[j].op \in { "create_dir", "reader", "writer", "next" } )
            => \E k \in (i + 1)..(j - 1) :
                 /\ IsCall(k, "dst", "close")
                 /\ calls[k].path = calls[i].path
                 /\ calls[k].res = "ok"

\* C2 witness: a second writer is open after a first transfer completed
C2_Witness ==
    /\ EntriesCopy /\ Len(writers) = 1
    /\ Cardinality({ i \in DstWriterOpens : calls[i].res = "ok" }) = 2

\* C3: a failed backend call is the last call copy makes (no further
\* call, no retry), copy is over and its result is that failure (a failed
\* read of the byte stream is an io::Error, returned as the opendal error
\* it converts to).
C3_FailureAborts ==
    \A i \in DOMAIN calls :
        CallFailed(calls[i]) =>
            /\ i = Len(calls)
            /\ pc = "done"
            /\ result = IF calls[i].op = "read"
                          THEN into_opendal_error(calls[i].res)
                          ELSE calls[i].res

\* C3 witness: a write fails in the second transfer of a directory or
\* glob copy
C3_Witness ==
    /\ EntriesCopy /\ pc = "done"
    /\ Len(calls) > 0 /\ IsCall(Len(calls), "dst", "write")
    /\ CallFailed(calls[Len(calls)])
    /\ \E i \in DOMAIN calls : IsCall(i, "dst", "close") /\ calls[i].res = "ok"

\* The answer of the destination stat that copy_entries or copy_file made
DstStatAnswered(r) ==
    \E i \in DOMAIN calls : IsCall(i, "dst", "stat") /\ calls[i].res = r

\* C4: a directory or glob copy whose destination stat answers "a file"
\* fails with NotADirectory and leaves the destination untouched: no
\* create_dir, no writer, no write, and every object as it was.
C4_DirOntoFile ==
    (EntriesCopy /\ DstStatAnswered("FILE")) =>
        /\ pc = "done"
        /\ result = "NotADirectory"
        /\ DstMutations = { }
        /\ dst = DstObjects

\* C4 witness: a glob copy onto the existing file o/f has failed
C4_Witness ==
    /\ kind = "glob" /\ DstStatAnswered("FILE")
    /\ destination = << "o", "f" >> /\ pc = "done"

\* The glob characters of the model's segments, spelled out
SourceIsPattern == \E i \in 1..Len(source) : source[i] \in { "*", "**", "[" }

\* C5: copy normalizes both paths, then a source with a glob character is
\* a glob copy with no stat of the source; any other source is stat-ed
\* first, and mode DIR lists the source (directory copy), mode FILE stats
\* the destination next (file copy), any other mode fails with Unsupported
\* after that one call.
C5_Dispatch ==
    pc # "start" =>
        /\ source = normalize_path(srcArg)
        /\ destination = normalize_path(dstArg)
        /\ IF SourceIsPattern
             THEN /\ kind = "glob"
                  /\ \A i \in DOMAIN calls : ~IsCall(i, "src", "stat")
             ELSE /\ kind # "glob"
                  /\ calls # << >> =>
                      /\ IsCall(1, "src", "stat") /\ calls[1].path = source
                      /\ \A i \in DOMAIN calls : IsCall(i, "src", "stat") => i = 1
                      /\ calls[1].res = "DIR" =>
                            /\ kind = "dir"
                            /\ Len(calls) >= 2 =>
                                 /\ calls[2].b = "src" /\ calls[2].op \in ListOps
                                 /\ calls[2].path = source
                      /\ calls[1].res = "FILE" =>
                            /\ kind = "file"
                            /\ Len(calls) >= 2 =>
                                 IsCall(2, "dst", "stat") /\ calls[2].path = destination
                            /\ \A i \in DOMAIN calls : calls[i].op \notin ListOps
                      /\ calls[1].res = "Unknown" =>
                            /\ pc = "done" /\ result = "Unsupported"
                            /\ Len(calls) = 1

\* C5 witness: a source that needed normalizing was stat-ed as a file and
\* copied as one
C5_Witness ==
    /\ srcArg # source /\ kind = "file"
    /\ pc = "done" /\ result = "Ok"

\* C6: when the stat of a glob-free source answers NotFound, copy fails
\* with NotFound having made no other call, none on the destination, and
\* the destination is as it was.
C6_SourceMissing ==
    (calls # << >> /\ IsCall(1, "src", "stat") /\ calls[1].res = "NotFound") =>
        /\ pc = "done"
        /\ result = "NotFound"
        /\ Len(calls) = 1
        /\ dst = DstObjects

\* C6 witness: the copy of the missing source x has failed
C6_Witness ==
    /\ srcArg = << "x" >> /\ pc = "done" /\ result = "NotFound"

\* The destination as the copy found it, with one file replaced or added
DstWith(k, data) ==
    /\ DOMAIN dst = DOMAIN DstObjects \cup { k }
    /\ dst[k].mode = "FILE" /\ dst[k].data = data
    /\ \A x \in DOMAIN DstObjects : x # k => dst[x] = DstObjects[x]

\* The filename of the source: the last segment of its path, and for a
\* path without segments the one its content disposition suggests
SourceFilename ==
    IF Key(source) # << >> THEN Key(source)[Len(Key(source))]
    ELSE src[<< >>].cd

\* C7: a file copy whose destination stat answers "a directory" opens its
\* writer, writes and closes only at destination/<source filename>, and
\* when it succeeds that object holds the source's bytes and nothing else
\* has changed.
C7_FileIntoDirectory ==
    (kind = "file" /\ DstStatAnswered("DIR")) =>
        /\ \A i \in DstMutations :
            /\ calls[i].op # "create_dir"
            /\ Key(calls[i].path) = Append(Key(destination), SourceFilename)
        /\ (pc = "done" /\ result = "Ok") =>
            DstWith(Append(Key(destination), SourceFilename), src[Key(source)].data)

\* C7 witness: d/s/g was copied into the existing directory o/
C7_Witness ==
    /\ kind = "file" /\ DstStatAnswered("DIR")
    /\ destination = << "o", "" >> /\ source = << "d", "s", "g" >>
    /\ pc = "done" /\ result = "Ok"
    /\ << "o", "g" >> \in DOMAIN dst

\* C8: a file copy whose destination stat answers "a file" opens its
\* writer, writes and closes only at the destination path itself and
\* creates no directory; when it succeeds the object holds the source's
\* bytes in place of its own and nothing else has changed.
C8_FileOverwrite ==
    (kind = "file" /\ DstStatAnswered("FILE")) =>
        /\ \A i \in DstMutations :
            /\ calls[i].op # "create_dir"
            /\ calls[i].path = destination
        /\ (pc = "done" /\ result = "Ok") =>
            DstWith(Key(destination), src[Key(source)].data)

\* C8 witness: d/f was copied over the file o/f, whose bytes differed
C8_Witness ==
    /\ kind = "file" /\ DstStatAnswered("FILE")
    /\ destination = << "o", "f" >> /\ source = << "d", "f" >>
    /\ pc = "done" /\ result = "Ok"
    /\ DstObjects[<< "o", "f" >>].data # src[<< "d", "f" >>].data

\* No backend call failed in the backend itself
NoBackendFailure ==
    \A i \in DOMAIN calls : calls[i].res \notin { BackendError } \cup IoErrorKinds

\* C9: a file copy whose destination stat answers NotFound succeeds when
\* the backends do not fail: the destination's parent directory is
\* created before the writer is opened, also when it is not the root, and
\* the object is written at exactly the destination path.
C9_FileToMissingPath ==
    (kind = "file" /\ DstStatAnswered("NotFound") /\ NoBackendFailure) =>
        /\ pc = "done" => result = "Ok"
        /\ \A i \in DstWriterOpens :
            /\ calls[i].path = destination
            /\ HasParent(destination) =>
                \E k \in DstCreateDirs :
                    /\ k < i
                    /\ calls[k].res = "ok"
                    /\ Key(calls[k].path) = Key(Parent(destination))
        /\ (pc = "done" /\ result = "Ok") =>
            /\ Key(destination) \in DOMAIN dst
            /\ dst[Key(destination)].mode = "FILE"
            /\ dst[Key(destination)].data = src[Key(source)].data
            /\ \A x \in DOMAIN dst :
                (x # Key(destination) /\ dst[x].mode = "FILE") =>
                    (x \in DOMAIN DstObjects /\ dst[x] = DstObjects[x])

\* C10: in a file copy what the writer holds, the chunk in hand and what
\* the stream has yet to yield are together the source's bytes in order,
\* and after a successful copy the object written holds exactly them.
C10_BytesEqual ==
    kind = "file" =>
        /\ pc \in { "read", "close" } =>
            writers[1].buf \o stream = src[Key(source)].data
        /\ pc = "write" =>
            writers[1].buf \o << chunk >> \o stream = src[Key(source)].data
        /\ (pc = "done" /\ result = "Ok") =>
            /\ Key(dest_path) \in DOMAIN dst
            /\ dst[Key(dest_path)].data = src[Key(source)].data
            /\ Cardinality({ i \in DOMAIN calls :
                                IsCall(i, "dst", "write") /\ calls[i].res = "ok" })
                 = Len(src[Key(source)].data)

\* C10 witness: a file of several chunks was copied
C10_Witness ==
    /\ kind = "file" /\ pc = "done" /\ result = "Ok"
    /\ Len(src[Key(source)].data) >= 2
    /\ dst[Key(dest_path)].data = src[Key(source)].data

\* The transfers of one copy: each starts with the open of its reader and
\* lasts until the next one starts
Transfers == { i \in DOMAIN calls : IsCall(i, "src", "reader") }

TransferEnd(i) ==
    IF \E j \in Transfers : j > i
    THEN (CHOOSE j \in Transfers : j > i /\ \A x \in Transfers : x > i => j <= x) - 1
    ELSE Len(calls)

TransferCalls(i, op, res) ==
    { j \in i..TransferEnd(i) : calls[j].op = op /\ calls[j].res = res }

TransferCloses(i) ==
    { k \in i..TransferEnd(i) : IsCall(k, "dst", "close") }

\* A transfer is over with success once copy went on to another transfer
\* or returned Ok
TransferSucceeded(i) ==
    \/ TransferEnd(i) < Len(calls)
    \/ pc = "done" /\ result = "Ok"

\* C11: in every transfer the writer is closed at most once, and exactly
\* once when the transfer succeeds; a close comes only after the reader,
\* the writer and the stream were opened, every chunk of the source
\* object was read and each chunk read was written with success just
\* after its read; a transfer in which an open, a read or a write failed
\* has no close.
C11_CloseOnce ==
    \A i \in Transfers :
        /\ Cardinality(TransferCloses(i)) <= 1
        /\ TransferSucceeded(i) => Cardinality(TransferCloses(i)) = 1
        /\ \A k \in TransferCloses(i) :
            /\ \A j \in i..(k - 1) :
                 /\ calls[j].op \in { "reader", "writer", "stream", "read", "write" }
                 /\ ~CallFailed(calls[j])
                 /\ (calls[j].op = "read" /\ calls[j].res = "ok")
                      => /\ j + 1 < k
                         /\ IsCall(j + 1, "dst", "write")
                         /\ calls[j + 1].res = "ok"
            /\ Cardinality({ j \in i..(k - 1) : calls[j].op = "writer" }) = 1
            /\ IsCall(k - 1, "src", "read") /\ calls[k - 1].res = "end"
            /\ Cardinality({ j \in i..(k - 1) :
                               calls[j].op = "read" /\ calls[j].res = "ok" })
                 = Len(src[Key(calls[i].path)].data)
        /\ (\E j \in i..TransferEnd(i) :
               /\ calls[j].op \in { "reader", "writer", "stream", "read", "write" }
               /\ CallFailed(calls[j]))
             => TransferCloses(i) = { }

\* C11 witness: a copy that closed the writer of a two-chunk transfer
\* once, after both writes, and then failed in a write of a later
\* transfer, which has no close
C11_Witness ==
    /\ pc = "done" /\ Len(calls) > 0
    /\ \E i, j \in Transfers :
        /\ i < j
        /\ Len(src[Key(calls[i].path)].data) = 2
        /\ Cardinality(TransferCloses(i)) = 1
        /\ Cardinality(TransferCalls(i, "write", "ok")) = 2
        /\ IsCall(Len(calls), "dst", "write")
        /\ CallFailed(calls[Len(calls)])
        /\ TransferCalls(j, "read", "ok") # { }
        /\ TransferCloses(j) = { }

\* The operations copy issues on a backend
CopyOps ==
    { "stat", "list", "list_recursive", "next", "create_dir", "reader",
      "writer", "stream",
      "read", "write", "close" }

DstClosed == { k \in DOMAIN calls : IsCall(k, "dst", "close") /\ calls[k].res = "ok" }

\* The transfer a call belongs to
TransferOf(k) == CHOOSE i \in Transfers : i <= k /\ k <= TransferEnd(i)

\* C12: in a directory or glob copy, at every moment and so after a
\* failure partway, every object whose transfer was closed is in the
\* destination with its source's bytes, every directory a create_dir
\* made exists, every object the destination held before is still there
\* (unchanged unless a transfer overwrote it), and no call other than the
\* read, list, create_dir and write operations (no delete) was issued.
C12_NoRollback ==
    EntriesCopy =>
        /\ \A k \in DstClosed :
            /\ Key(calls[k].path) \in DOMAIN dst
            /\ dst[Key(calls[k].path)].mode = "FILE"
            /\ dst[Key(calls[k].path)].data
                 = src[Key(calls[TransferOf(k)].path)].data
        /\ \A i \in DstCreateDirs :
            calls[i].res = "ok" => DirExists(dst, Key(calls[i].path))
        /\ \A x \in DOMAIN DstObjects :
            /\ x \in DOMAIN dst
            /\ (\A k \in DstClosed : Key(calls[k].path) # x)
                 => dst[x] = DstObjects[x]
        /\ \A i \in DOMAIN calls : calls[i].op \in CopyOps

\* C12 witness: a copy that failed in a write after it had created a
\* directory below the destination root and completed two transfers
C12_Witness ==
    /\ EntriesCopy /\ pc = "done" /\ result # "Ok" /\ Len(calls) > 0
    /\ IsCall(Len(calls), "dst", "write") /\ CallFailed(calls[Len(calls)])
    /\ Cardinality(DstClosed) = 2
    /\ \E i \in DstCreateDirs :
        calls[i].res = "ok" /\ Key(calls[i].path) # Key(destination)

\* C13: when the retry of a copy is over (the backends not failing, the
\* source unchanged), whether the run before it failed partway or
\* succeeded, the retry has succeeded and the destination is what one
\* uninterrupted successful run leaves; after a run that succeeded the
\* destination is also what that run left.
C13_RetryIdempotent ==
    (Len(before) = 2 /\ pc = "done") =>
        /\ result = "Ok"
        /\ dst = before[1].dst
        /\ before[2].result = "Ok" => dst = before[2].dst

\* C13 witness: the retry of a directory copy that had failed after it
\* completed one transfer is over
C13_Witness ==
    /\ Len(before) = 2 /\ pc = "done" /\ kind = "dir"
    /\ before[2].result # "Ok"
    /\ before[2].dst # DstObjects
    /\ before[2].dst # before[1].dst

\* C13 witness of the second case: the retry of a copy that succeeded
C13_WitnessAfterSuccess ==
    /\ Len(before) = 2 /\ pc = "done" /\ before[2].result = "Ok"

\* The source objects below a directory, and those a pattern matches
SourceUnder(k) == { x \in DOMAIN src : Len(x) > Len(k) /\ IsPrefixSeq(k, x) }

SourceMatches(pattern) == { x \in DOMAIN src : GlobMatch(pattern, x) }

\* A directory copy of an empty directory, or a glob copy whose (valid)
\* pattern matches nothing
NothingToCopy ==
    \/ kind = "dir" /\ SourceUnder(Key(source)) = { }
    \/ kind = "glob" /\ GlobCompiles(source) /\ SourceMatches(Key(source)) = { }

\* The calls of a transfer
TransferOps == { "reader", "writer", "stream", "read", "write", "close" }

\* C14: a directory copy of an empty source directory, and a glob copy
\* whose pattern matches no entry, open no reader and no writer; when the
\* destination is not a file and no backend call fails, the copy ends
\* with success, the destination exists as a directory, created by a
\* create_dir right after the stat that found it missing, and no object
\* of the destination has changed.
C14_NothingToCopy ==
    NothingToCopy =>
        /\ \A i \in DOMAIN calls : calls[i].op \notin TransferOps
        /\ (pc = "done" /\ NoBackendFailure /\ ~DstStatAnswered("FILE")) =>
            /\ result = "Ok"
            /\ DirExists(dst, Key(destination))
            /\ \A x \in DOMAIN DstObjects : x \in DOMAIN dst /\ dst[x] = DstObjects[x]
            /\ \A x \in DOMAIN dst : x \in DOMAIN DstObjects \/ x = Key(destination)
            /\ \A i \in DOMAIN calls :
                (IsCall(i, "dst", "stat") /\ calls[i].res = "NotFound") =>
                    /\ i < Len(calls)
                    /\ IsCall(i + 1, "dst", "create_dir")
                    /\ Key(calls[i + 1].path) = Key(destination)
                    /\ calls[i + 1].res = "ok"

\* C14 witness: a glob copy that matched nothing ended with success and
\* created the destination that was missing
C14_Witness ==
    /\ kind = "glob" /\ SourceMatches(Key(source)) = { }
    /\ pc = "done" /\ result = "Ok"
    /\ DstStatAnswered("NotFound")
    /\ Key(destination) \in DOMAIN dst /\ dst[Key(destination)].mode = "DIR"

\* C14 witness of the other case: the copy of an empty directory
C14_WitnessEmptyDir ==
    /\ kind = "dir" /\ SourceUnder(Key(source)) = { }
    /\ pc = "done" /\ result = "Ok"
    /\ DstStatAnswered("NotFound")
    /\ Key(destination) \in DOMAIN dst /\ dst[Key(destination)].mode = "DIR"

\* The files that are direct children of a source directory
DirectChildren(k) ==
    { x \in SourceUnder(k) : Len(x) = Len(k) + 1 /\ src[x].mode = "FILE" }

\* C15: in a directory copy without the recursive option every reader is
\* opened on a direct child file of the source directory and every
\* writer on destination/<that file's name>; the destination gains no
\* other object than these and its root; and a copy of a source named as
\* a directory (trailing separator) that ends with success has written
\* every direct child file with its bytes.
C15_NonRecursive ==
    (kind = "dir" /\ ~recursive) =>
        LET sk == Key(source)
            dk == Key(destination)
            Target(x) == dk \o << x[Len(x)] >>
        IN  /\ \A i \in Transfers : Key(calls[i].path) \in DirectChildren(sk)
            /\ \A i \in DstWriterOpens :
                 /\ i - 1 \in Transfers
                 /\ Key(calls[i].path) = Target(Key(calls[i - 1].path))
            /\ \A k \in DOMAIN dst :
                 \/ k \in DOMAIN DstObjects /\ dst[k] = DstObjects[k]
                 \/ k = dk /\ dst[k].mode = "DIR"
                 \/ \E x \in DirectChildren(sk) :
                      k = Target(x) /\ dst[k].data = src[x].data
            /\ (pc = "done" /\ result = "Ok" /\ IsDirStr(source)) =>
                 \A x \in DirectChildren(sk) :
                     /\ Target(x) \in DOMAIN dst
                     /\ dst[Target(x)].mode = "FILE"
                     /\ dst[Target(x)].data = src[x].data

\* C15 witness: a non-recursive copy of a directory that has a direct
\* child file and files in a subdirectory ended with success
C15_Witness ==
    /\ kind = "dir" /\ ~recursive /\ pc = "done" /\ result = "Ok"
    /\ DirectChildren(Key(source)) # { }
    /\ \E x \in SourceUnder(Key(source)) :
         Len(x) > Len(Key(source)) + 1 /\ src[x].mode = "FILE"
    /\ DstClosed # { }

\* The files below a source directory, at any depth
Descendants(k) == { x \in SourceUnder(k) : src[x].mode = "FILE" }

\* The segments of x below the directory k
Below(k, x) == SubSeq(x, Len(k) + 1, Len(x))

\* C16: when a recursive directory copy has ended with success, every
\* file below the source directory, at any depth, is in the destination
\* at destination joined with the file's path relative to the source
\* directory, and holds the source file's bytes.
C16_RecursiveCopiesAll ==
    (kind = "dir" /\ recursive /\ pc = "done" /\ result = "Ok") =>
        \A x \in Descendants(Key(source)) :
            LET t == Key(destination) \o Below(Key(source), x) IN
            /\ t \in DOMAIN dst
            /\ dst[t].mode = "FILE"
            /\ dst[t].data = src[x].data

\* C16 witness: a recursive copy that ended with success wrote a file of
\* depth one and two files of depth two
C16_Witness ==
    /\ kind = "dir" /\ recursive /\ pc = "done" /\ result = "Ok"
    /\ \E x, y, z \in Descendants(Key(source)) :
        /\ Len(Below(Key(source), x)) = 1
        /\ Len(Below(Key(source), y)) = 2
        /\ Len(Below(Key(source), z)) = 2 /\ y # z
    /\ Cardinality(DstClosed) = 3

\* C17: when a recursive directory copy has ended with success, for every
\* file below the source directory every proper ancestor directory of
\* its relative path, the immediate parent and each one above it, exists
\* under the destination.
C17_IntermediateDirs ==
    (kind = "dir" /\ recursive /\ pc = "done" /\ result = "Ok") =>
        \A x \in Descendants(Key(source)) :
            LET r == Below(Key(source), x) IN
            \A n \in 1..(Len(r) - 1) :
                /\ DirExists(dst, Key(destination) \o SubSeq(r, 1, n))
                /\ "DIR" \in StatOutcomes("dst", dst,
                                          DirStr(Key(destination) \o SubSeq(r, 1, n)))

\* C17 witness: a recursive copy that ended with success copied a file
\* whose relative path has three segments, so two ancestor directories,
\* only the lower of which was the argument of a create_dir
C17_Witness ==
    /\ kind = "dir" /\ recursive /\ pc = "done" /\ result = "Ok"
    /\ \E x \in Descendants(Key(source)) :
        LET r == Below(Key(source), x)
            top == Key(destination) \o SubSeq(r, 1, 1)
        IN  /\ Len(r) = 3
            /\ Key(destination) \o r \in DOMAIN dst
            /\ \A i \in DstCreateDirs : Key(calls[i].path) # top

\* The source files whose complete path matches the pattern
MatchingFiles ==
    { x \in SourceMatches(Key(source)) : src[x].mode = "FILE" }

\* Where a glob copy places a file: the destination joined with the
\* file's path relative to the pattern's literal prefix
GlobTarget(x) == Key(destination) \o Below(Key(literal_prefix(source)), x)

\* C18: a glob copy, whatever its recursive option, issues one recursive
\* backend listing rooted at the pattern's literal prefix; it opens a
\* reader only on a source file whose complete path matches the pattern
\* and the writer at destination joined with that file's path relative
\* to the literal prefix; the destination gains no object but these and
\* their directories; and when the copy ends with success every matching
\* file is there with its bytes.
C18_GlobCopy ==
    (kind = "glob" /\ GlobCompiles(source)) =>
        /\ \A i \in DOMAIN calls :
            calls[i].op \in ListOps =>
                /\ i = 1
                /\ calls[i].op = "list_recursive"
                /\ Key(calls[i].path) = Key(literal_prefix(source))
        /\ \A i \in Transfers : Key(calls[i].path) \in MatchingFiles
        /\ \A i \in DstWriterOpens :
             /\ i - 1 \in Transfers
             /\ Key(calls[i].path) = GlobTarget(Key(calls[i - 1].path))
        /\ \A k \in DOMAIN dst :
             \/ k \in DOMAIN DstObjects /\ dst[k] = DstObjects[k]
             \/ /\ dst[k].mode = "DIR"
                /\ k = Key(destination) \/ \E x \in MatchingFiles :
                                             IsPrefixSeq(k, GlobTarget(x))
             \/ \E x \in MatchingFiles :
                  k = GlobTarget(x) /\ dst[k].mode = "FILE" /\ dst[k].data = src[x].data
        /\ (pc = "done" /\ result = "Ok") =>
             \A x \in MatchingFiles :
                 /\ GlobTarget(x) \in DOMAIN dst
                 /\ dst[GlobTarget(x)].mode = "FILE"
                 /\ dst[GlobTarget(x)].data = src[x].data

\* C18 witness: a glob copy with the recursive option unset ended with
\* success; it copied a matching file two levels below the literal
\* prefix, and a file below the prefix that does not match is not in the
\* destination
C18_Witness ==
    /\ kind = "glob" /\ ~recursive /\ pc = "done" /\ result = "Ok"
    /\ \E x \in MatchingFiles :
        /\ Len(Below(Key(literal_prefix(source)), x)) = 2
        /\ GlobTarget(x) \in DOMAIN dst
    /\ \E y \in Descendants(Key(literal_prefix(source))) \ MatchingFiles :
        GlobTarget(y) \notin DOMAIN dst

\* The entries the listing yielded that are directories
DirEntriesYielded ==
    { i \in DOMAIN calls :
        IsCall(i, "src", "next") /\ calls[i].res = "ok" /\ IsDirStr(calls[i].path) }

\* The directory the entries' relative paths start from
PrefixKey ==
    IF kind = "glob" THEN Key(literal_prefix(source)) ELSE Key(source)

ListCalls == { i \in DOMAIN calls : calls[i].op \in ListOps }

\* C20: list issues at most one backend listing.  For a path with a glob
\* segment it is rooted at the segments before the first glob segment and
\* is recursive, whatever options the caller passed; for any other path
\* it is rooted at the path itself and is recursive exactly when the
\* caller passed options with the recursive flag set.
C20_ListerRule ==
    kind = "list" =>
        /\ Cardinality(ListCalls) <= 1
        /\ \A i \in ListCalls :
            /\ i = 1 /\ calls[i].b = "src"
            /\ IF \E n \in 1..Len(srcArg) : srcArg[n] \in GlobSegments
                 THEN /\ calls[i].op = "list_recursive"
                      /\ calls[i].path = literal_prefix(srcArg)
                 ELSE /\ calls[i].path = srcArg
                      /\ calls[i].op = "list_recursive" <=> options = << TRUE >>

\* C20 witness: list was called with a pattern and options whose
\* recursive flag is unset, and has collected an entry two levels below
\* the literal prefix
C20_Witness ==
    /\ kind = "list" /\ options = << FALSE >> /\ pc = "done" /\ result = "Ok"
    /\ HasLiteralPrefix(srcArg)
    /\ \E i \in DOMAIN listed :
        Len(Key(listed[i].path)) = Len(Key(literal_prefix(srcArg))) + 2

\* C20 witness of the other case: a plain path listed with the caller's
\* recursive flag set, and with no options
C20_WitnessPlain ==
    /\ kind = "list" /\ ~HasLiteralPrefix(srcArg) /\ pc = "done"
    /\ calls[1].op = (IF options = << TRUE >> THEN "list_recursive" ELSE "list")
    /\ options # << FALSE >>
    /\ Len(calls) > 2

\* The entries the backend listing yielded so far, in order, as logged
Yielded == SelectSeq(calls, LAMBDA c : c.op = "next" /\ c.res = "ok")

PathsOf(seq) == [i \in DOMAIN seq |-> seq[i].path]

\* list called with a pattern that compiles
ListGlob == kind = "list" /\ HasLiteralPrefix(srcArg) /\ GlobCompiles(srcArg)

\* C21: for a glob path the entries list has collected are, in the same
\* order, the entries the backend listing yielded whose whole path
\* matches the whole pattern; when list ends with success they are
\* exactly the matching entries of the recursive backend listing under
\* the literal prefix, each once; a yielded entry that does not match
\* raises no error; an error of the backend listing is the last call and
\* the result of list.
C21_GlobListing ==
    ListGlob =>
        /\ PathsOf(listed)
             = PathsOf(SelectSeq(Yielded, LAMBDA c : GlobMatch(srcArg, c.path)))
        /\ (pc = "done" /\ result = "Ok") =>
             /\ { listed[i] : i \in DOMAIN listed }
                  = { e \in BackendList(src, literal_prefix(srcArg), TRUE) :
                        GlobMatch(srcArg, e.path) }
             /\ \A i, j \in DOMAIN listed : listed[i] = listed[j] => i = j
        /\ result \notin { "none", "Ok" } =>
             /\ calls # << >>
             /\ CallFailed(calls[Len(calls)])
             /\ calls[Len(calls)].op \in ListOps \cup { "next" }
        /\ \A i \in DOMAIN calls :
             CallFailed(calls[i]) =>
                 i = Len(calls) /\ pc = "done" /\ result = calls[i].res

\* C21 witness: list ended with success for a pattern; the backend
\* yielded an entry that does not match between two that match, and the
\* two are the output
C21_Witness ==
    /\ ListGlob /\ pc = "done" /\ result = "Ok"
    /\ Len(listed) = 2
    /\ \E i, j, k \in DOMAIN Yielded :
        /\ i < j /\ j < k
        /\ Yielded[i].path = listed[1].path
        /\ ~GlobMatch(srcArg, Yielded[j].path)
        /\ Yielded[k].path = listed[2].path

\* C21 witness of the error case: the backend listing failed after list
\* had collected an entry
C21_WitnessError ==
    /\ ListGlob /\ pc = "done" /\ result = BackendError
    /\ listed # << >>

\* The directory entries the backend listing yielded so far
DirYields == { i \in DOMAIN Yielded : IsDirStr(Yielded[i].path) }

InListed(path) == \E j \in DOMAIN listed : listed[j].path = path

\* C22 as stated: every directory entry the backend listing yielded is
\* in the output of list, for glob and glob-free paths.
C22_DirEntriesPassThrough ==
    kind = "list" =>
        \A i \in DirYields : InListed(Yielded[i].path)

\* C22 amended: list applies no filter on the kind of an entry.  For a
\* glob-free path every directory entry the backend listing yielded is
\* in the output; for a glob path a directory entry is in the output if
\* and only if its path matches the pattern, as for any other entry.
\* Every directory entry in the output keeps its kind.
C22_DirEntriesNotFilteredByKind ==
    kind = "list" =>
        /\ \A i \in DirYields :
            InListed(Yielded[i].path)
                <=> (~HasLiteralPrefix(srcArg) \/ GlobMatch(srcArg, Yielded[i].path))
        /\ \A j \in DOMAIN listed :
            IsDirStr(listed[j].path) <=> listed[j].mode = "DIR"

\* C22 witness: list ended with success for a pattern; the output holds
\* a directory entry that matches the pattern
C22_Witness ==
    /\ ListGlob /\ pc = "done" /\ result = "Ok"
    /\ \E j \in DOMAIN listed : listed[j].mode = "DIR"

\* C22 witness for a glob-free path: a directory entry is in the output
C22_WitnessPlain ==
    /\ kind = "list" /\ ~HasLiteralPrefix(srcArg) /\ pc = "done" /\ result = "Ok"
    /\ \E j \in DOMAIN listed : listed[j].mode = "DIR"

\* A path with an unclosed character class: its pattern cannot be
\* compiled
InvalidPattern(p) == \E i \in 1..Len(p) : p[i] = "["

\* C23: copy and list called with a path whose pattern cannot be
\* compiled end, at their first step, with the error Unexpected; no
\* backend call at all was issued (no listing, no call on the
\* destination), the destination holds what it held and list has
\* collected nothing.
C23_InvalidPattern ==
    (InvalidPattern(srcArg) /\ pc # "start") =>
        /\ pc = "done"
        /\ result = "Unexpected"
        /\ calls = << >>
        /\ dst = DstObjects
        /\ listed = << >>

\* C23 witness: a copy with an invalid pattern has ended
C23_Witness ==
    InvalidPattern(srcArg) /\ kind = "glob" /\ pc = "done" /\ result = "Unexpected"

\* C23 witness for list: a call with an invalid pattern has ended
C23_WitnessList ==
    InvalidPattern(srcArg) /\ kind = "list" /\ pc = "done" /\ result = "Unexpected"

\* The destination calls that change something are all made at the key k
MutationsOnlyAt(k) == \A i \in DstMutations : Key(calls[i].path) = k

\* C24: when a file is copied onto an existing directory the filename is
\* the last segment of the source path, whatever its content disposition
\* says; a source path without a last segment takes the filename of the
\* content disposition; with neither the copy fails with Unexpected and
\* nothing is created on or written to the destination.
C24_FilenameResolution ==
    (kind = "file" /\ DstStatAnswered("DIR")) =>
        LET k  == Key(source)
            cd == src[k].cd
            at(name) ==
                /\ MutationsOnlyAt(Append(Key(destination), name))
                /\ (pc = "done" /\ result = "Ok") =>
                       Append(Key(destination), name) \in DOMAIN dst
        IN  IF k # << >> THEN at(k[Len(k)])
            ELSE IF cd # "none" THEN at(cd)
            ELSE /\ pc = "done"
                 /\ result = "Unexpected"
                 /\ DstMutations = {}
                 /\ dst = DstObjects

\* C24 witness: a source whose path has no segment and whose content
\* disposition suggests "report" was copied into the directory o/
C24_Witness ==
    /\ kind = "file" /\ DstStatAnswered("DIR")
    /\ Key(source) = << >> /\ src[<< >>].cd = "report"
    /\ pc = "done" /\ result = "Ok"
    /\ << "o", "report" >> \in DOMAIN dst

\* C24 witness: a source with neither a last segment nor a content
\* disposition was refused
C24_WitnessNoName ==
    /\ kind = "file" /\ DstStatAnswered("DIR")
    /\ Key(source) = << >> /\ src[<< >>].cd = "none"
    /\ pc = "done" /\ result = "Unexpected"

\* C24 witness: d/s/g, whose content disposition suggests "report", was
\* copied into o/ under the name of its path
C24_WitnessPathFirst ==
    /\ kind = "file" /\ DstStatAnswered("DIR")
    /\ source = << "d", "s", "g" >> /\ src[Key(source)].cd = "report"
    /\ pc = "done" /\ result = "Ok"
    /\ << "o", "g" >> \in DOMAIN dst /\ << "o", "report" >> \notin DOMAIN dst

\* The destination stats of the log that failed with something else than
\* NotFound
DstStatErrors ==
    { i \in DOMAIN calls :
        /\ IsCall(i, "dst", "stat")
        /\ calls[i].res \notin { "FILE", "DIR", "Unknown", "NotFound" } }

\* The first call of the log that is made on the destination after its stat
\* at i; 0 when there is none
NextDstCall(i) ==
    LET later == { j \in DOMAIN calls : j > i /\ calls[j].b = "dst" }
    IN  IF later = {} THEN 0
        ELSE CHOOSE j \in later : \A x \in later : j <= x

\* C25: a destination stat that fails with a kind other than NotFound ends
\* the file, directory or glob copy with that very error, without any
\* create_dir, writer or write on the destination, which stays as it was.
\* Only after the answer NotFound is the destination created as missing:
\* its create_dir (the destination itself for a directory or glob copy,
\* its parent for a file copy) follows a stat that answered NotFound and
\* no other answer, and after NotFound the copy goes on.
C25_DstStatError ==
    /\ \A i \in DstStatErrors :
        /\ kind \in { "file", "dir", "glob" }
        /\ pc = "done"
        /\ result = calls[i].res
        /\ i = Len(calls)
        /\ DstMutations = {}
        /\ dst = DstObjects
    /\ \A i \in DOMAIN calls :
        IsCall(i, "dst", "stat") =>
            LET n == NextDstCall(i)
                creates ==
                    /\ n # 0
                    /\ calls[n].op = "create_dir"
                    /\ Key(calls[n].path) =
                          IF kind = "file" THEN Key(Parent(destination))
                          ELSE Key(destination)
            IN  /\ creates => calls[i].res = "NotFound"
                /\ (calls[i].res = "NotFound" /\ pc = "done") =>
                       /\ i < Len(calls)
                       /\ (EntriesCopy \/ HasParent(destination)) => creates

\* C25 witness: the glob copy of d/* ended with the error of its
\* destination stat
C25_Witness ==
    /\ kind = "glob" /\ GlobCompiles(source)
    /\ DstStatErrors # {}
    /\ pc = "done" /\ result = BackendError

\* C25 witness: a directory copy ended with the error of its destination
\* stat
C25_WitnessDir ==
    /\ kind = "dir" /\ DstStatErrors # {}
    /\ pc = "done" /\ result = BackendError

\* C25 witness: a file copy ended with the error of its destination stat
C25_WitnessFile ==
    /\ kind = "file" /\ DstStatErrors # {}
    /\ pc = "done" /\ result = BackendError

\* C25 witness: a directory copy created the destination n/ that its stat
\* reported as NotFound
C25_WitnessMissing ==
    /\ kind = "dir" /\ DstStatAnswered("NotFound")
    /\ \E n \in DstCreateDirs : Key(calls[n].path) = Key(destination)
    /\ pc = "done" /\ result = "Ok"

\* A string that starts with a separator, and one that ends with one
LeadingSeparator(s) == Len(s) >= 2 /\ Head(s) = ""

TrailingSeparator(s) == Len(s) >= 2 /\ s[Len(s)] = ""

\* normalize_path has been applied to srcArg, and source is what it returned
Normalized == kind = "path" /\ pc \in { "normalized", "renormalized" }

\* C26: normalize is idempotent: normalizing the path that normalize
\* returned gives that same path, for every input.
C26_NormalizeIdempotent ==
    (kind = "path" /\ pc = "renormalized") => destination = source

\* C26 witness: a/../b/ was normalized to b/, and b/ again to b/
C26_Witness ==
    /\ kind = "path" /\ pc = "renormalized"
    /\ srcArg = << "a", "..", "b" >>
    /\ source = << "b" >> /\ destination = << "b" >>

\* C26 witness: the root / was normalized twice
C26_WitnessRoot ==
    /\ kind = "path" /\ pc = "renormalized"
    /\ srcArg = << "", "" >> /\ destination = source

\* C27: the path normalize returns never starts with a separator, the
\* inputs /, ./ and ../ included.
C27_NoLeadingSeparator ==
    Normalized => ~LeadingSeparator(source)

\* C28: the path normalize returns ends with a separator iff the input
\* does, also when the input's last segments are . or ..
C28_TrailingSeparator ==
    Normalized => (TrailingSeparator(source) <=> TrailingSeparator(srcArg))

\* C28 witness: a/../ was normalized, and the result ends with a separator
C28_Witness ==
    /\ Normalized
    /\ srcArg = << "a", "..", "" >>
    /\ TrailingSeparator(source)

\* C28 witness: a/. was normalized, and the result ends with no separator
C28_WitnessDot ==
    /\ Normalized
    /\ srcArg = << "a", "." >>
    /\ source = << "a" >>

\* The segments of a string that have a glob character, in their order
GlobSegmentsOf(s) == SelectSeq(s, LAMBDA seg : seg \in GlobSegments)

\* C29: every segment of the input with a glob character is a segment of
\* the normalized path, in the same order and with no other glob segment,
\* so the normalized path has glob characters iff the input has.
C29_GlobSegmentsKept ==
    Normalized =>
        /\ GlobSegmentsOf(source) = GlobSegmentsOf(srcArg)
        /\ (GlobSegmentsOf(source) # << >>) <=> (GlobSegmentsOf(srcArg) # << >>)

\* The index of the first segment with a glob character
FirstGlobIndex(pattern) ==
    CHOOSE i \in 1..Len(pattern) :
        /\ pattern[i] \in GlobSegments
        /\ \A j \in 1..(i - 1) : pattern[j] \notin GlobSegments

\* The string that joins segments with the separator
JoinSegments(parts) == IF parts = << >> THEN << "" >> ELSE parts

\* C30: literal_prefix returns a value iff some segment of the pattern has
\* a glob character, which is when has_glob_chars holds of the pattern;
\* the value is the join of exactly the segments before the first such
\* segment; otherwise it returns none.
C30_LiteralPrefix ==
    (kind = "path" /\ pc = "prefixed") =>
        LET globs == { i \in 1..Len(srcArg) : srcArg[i] \in GlobSegments }
        IN  /\ result \in { "Some", "None" }
            /\ result = "Some" <=> globs # {}
            /\ result = "Some" <=> has_glob_chars(srcArg)
            /\ result = "Some" =>
                   source_prefix =
                       JoinSegments(SubSeq(srcArg, 1, FirstGlobIndex(srcArg) - 1))

\* C30 witness: the prefix of /a/* is /a, an empty segment included
C30_Witness ==
    /\ kind = "path" /\ pc = "prefixed"
    /\ srcArg = << "", "a", "*" >>
    /\ result = "Some" /\ source_prefix = << "", "a" >>

\* C30 witness: a/b has no glob segment and no prefix
C30_WitnessNone ==
    /\ kind = "path" /\ pc = "prefixed"
    /\ srcArg = << "a", "b" >>
    /\ result = "None"

\* A base and a remainder joined by a separator; an empty base adds none
JoinedBySeparator(base, remainder) ==
    IF base = << "" >> THEN remainder ELSE base \o remainder

\* C31: for every pattern with a glob segment the base that split returns
\* is literal_prefix(pattern), the remainder is the pattern from its first
\* glob segment on, and base and remainder joined by a separator are the
\* pattern.
C31_SplitAsLiteralPrefix ==
    (kind = "path" /\ pc = "split" /\ GlobSegmentsOf(srcArg) # << >>) =>
        /\ source_prefix = literal_prefix(srcArg)
        /\ dest_path = SubSeq(srcArg, FirstGlobIndex(srcArg), Len(srcArg))
        /\ JoinedBySeparator(source_prefix, dest_path) = srcArg

\* The strings without an empty segment: no leading, trailing or doubled
\* separator
NoEmptySegment(s) == \A i \in 1..Len(s) : s[i] # ""

\* The patterns without empty segment, on which split and literal_prefix
\* agree
C31_SplitWithoutEmptySegments ==
    (kind = "path" /\ pc = "split" /\ GlobSegmentsOf(srcArg) # << >>
       /\ NoEmptySegment(srcArg)) =>
        /\ source_prefix = literal_prefix(srcArg)
        /\ dest_path = SubSeq(srcArg, FirstGlobIndex(srcArg), Len(srcArg))
        /\ JoinedBySeparator(source_prefix, dest_path) = srcArg

\* a/*/b was split into a and */b
C31_WitnessAgree ==
    /\ kind = "path" /\ pc = "split"
    /\ srcArg = << "a", "*", "b" >>
    /\ source_prefix = << "a" >> /\ dest_path = << "*", "b" >>

\* The source objects whose transfer was closed with success
CopiedEntries ==
    { Key(calls[i].path) : i \in { j \in Transfers : TransferCalls(j, "close", "ok") # {} } }

\* The path of an entry relative to the source prefix: what is below the
\* prefix, and the whole path of an entry that is not below it
RelativeKey(x) ==
    IF IsPrefixSeq(PrefixKey, x) THEN Below(PrefixKey, x) ELSE x

\* The destination key of a copied entry: the destination joined with the
\* entry's relative path
EntryTarget(x) == Key(destination) \o RelativeKey(x)

\* The directories a create_dir of this copy made
DirsMade ==
    { Key(calls[i].path) : i \in { j \in DstCreateDirs : calls[j].res = "ok" } }

\* C32: a directory or glob copy into an existing destination directory
\* changes the destination only at the targets of copied entries (and by
\* the directories its create_dir calls make): an object that was at a
\* target is replaced by the source's content, every copied entry is at
\* its target, and every other object the destination held is still there
\* as it was.
C32_FrameExistingDirectory ==
    (EntriesCopy /\ DstStatAnswered("DIR")) =>
        /\ \A x \in CopiedEntries :
            /\ EntryTarget(x) \in DOMAIN dst
            /\ dst[EntryTarget(x)].mode = "FILE"
            /\ dst[EntryTarget(x)].data = src[x].data
        /\ \A k \in DOMAIN DstObjects :
            /\ k \in DOMAIN dst
            /\ (\A x \in CopiedEntries : EntryTarget(x) # k) => dst[k] = DstObjects[k]
        /\ \A k \in DOMAIN dst \ DOMAIN DstObjects :
            \/ \E x \in CopiedEntries : EntryTarget(x) = k
            \/ dst[k].mode = "DIR" /\ k \in DirsMade

\* C32 witness: the recursive copy of d/ into the existing o/ replaced
\* o/f, whose bytes differed, added o/s/f and left o/k as it was
C32_Witness ==
    /\ kind = "dir" /\ DstStatAnswered("DIR") /\ pc = "done" /\ result = "Ok"
    /\ source = << "d", "" >> /\ Key(destination) = << "o" >>
    /\ << "d", "f" >> \in CopiedEntries
    /\ DstObjects[<< "o", "f" >>].data # src[<< "d", "f" >>].data
    /\ dst[<< "o", "f" >>].data = src[<< "d", "f" >>].data
    /\ << "o", "s", "f" >> \in DOMAIN dst
    /\ dst[<< "o", "k" >>] = DstObjects[<< "o", "k" >>]

\* C32 witness: the glob copy of d/* into the existing o/ replaced o/f and
\* left o/k as it was
C32_WitnessGlob ==
    /\ kind = "glob" /\ DstStatAnswered("DIR") /\ pc = "done" /\ result = "Ok"
    /\ Key(destination) = << "o" >>
    /\ dst[<< "o", "f" >>].data = src[<< "d", "f" >>].data
    /\ dst[<< "o", "k" >>] = DstObjects[<< "o", "k" >>]

\* The create_dir calls made for the destination root itself
RootCreateDirs ==
    { i \in DstCreateDirs : Key(calls[i].path) = Key(destination) }

\* The turns of the listing
NextCalls == { i \in DOMAIN calls : IsCall(i, "src", "next") }

\* C33: in a directory or glob copy the destination root counts as created
\* from the start: a create_dir for the root is issued at most once, right
\* after the destination stat that answered NotFound and before the first
\* turn of the listing, never during the entry loop; and the transfer of a
\* file directly under the source prefix follows its listing turn with no
\* create_dir in between.
C33_RootPreMarked ==
    EntriesCopy =>
        /\ Cardinality(RootCreateDirs) <= 1
        /\ \A i \in RootCreateDirs :
            /\ i > 1
            /\ IsCall(i - 1, "dst", "stat") /\ calls[i - 1].res = "NotFound"
            /\ \A n \in NextCalls : n > i
        /\ \A i \in Transfers :
            Len(Below(PrefixKey, Key(calls[i].path))) = 1 =>
                /\ IsCall(i - 1, "src", "next")
                /\ calls[i - 1].path = calls[i].path

\* C33 witness: d/ was copied to the existing o/ without any create_dir
\* for o/, its file d/f directly under the prefix included
C33_Witness ==
    /\ kind = "dir" /\ DstStatAnswered("DIR") /\ pc = "done" /\ result = "Ok"
    /\ Key(destination) = << "o" >>
    /\ RootCreateDirs = { }
    /\ \E i \in Transfers : calls[i].path = << "d", "f" >>

\* C33 witness: d/ was copied to the missing n/, which was created once up
\* front, and d/f was transferred
C33_WitnessMissing ==
    /\ kind = "dir" /\ DstStatAnswered("NotFound") /\ pc = "done" /\ result = "Ok"
    /\ Key(destination) = << "n" >>
    /\ Cardinality(RootCreateDirs) = 1
    /\ \E i \in Transfers : calls[i].path = << "d", "f" >>

\* The turns of the listing that yielded a file entry
FileYields ==
    { n \in NextCalls : calls[n].res = "ok" /\ ~IsDirStr(calls[n].path) }

\* C34: in a directory or glob copy every writer is opened at the
\* destination joined with the entry path stripped of the source prefix,
\* and at the destination joined with the whole entry path when the prefix
\* is empty or the entry is not under it; such an entry is copied like any
\* other: the call after its listing turn is the create_dir of its parent
\* or its reader, and a copy in which no backend call failed ends with
\* success and every yielded file at its destination path.
C34_RelativePath ==
    EntriesCopy =>
        /\ \A i \in DstWriterOpens :
            /\ i - 1 \in Transfers
            /\ LET x == Key(calls[i - 1].path)
                   rel == IF PrefixKey # << >> /\ IsPrefixSeq(PrefixKey, x)
                            THEN SubSeq(x, Len(PrefixKey) + 1, Len(x))
                            ELSE x
               IN  Key(calls[i].path) = Key(destination) \o rel
        /\ \A n \in FileYields :
            n < Len(calls) =>
                \/ IsCall(n + 1, "src", "reader") /\ calls[n + 1].path = calls[n].path
                \/ IsCall(n + 1, "dst", "create_dir")
        /\ (pc = "done" /\ NextCalls # {} /\ \A i \in DOMAIN calls : ~CallFailed(calls[i])) =>
            /\ result = "Ok"
            /\ \A n \in FileYields :
                LET x == Key(calls[n].path) IN
                /\ EntryTarget(x) \in DOMAIN dst
                /\ dst[EntryTarget(x)].data = src[x].data

\* C34 witness: the copy of the directory d, named without a trailing
\* separator, was handed the entry dx by the listing, which is not under
\* d, and copied it to o/dx
C34_Witness ==
    /\ kind = "dir" /\ source = << "d" >> /\ Key(destination) = << "o" >>
    /\ pc = "done" /\ result = "Ok"
    /\ \E n \in FileYields :
         /\ Key(calls[n].path) = << "dx" >>
         /\ ~IsPrefixSeq(PrefixKey, << "dx" >>)
    /\ << "o", "dx" >> \in DOMAIN dst
    /\ dst[<< "o", "dx" >>].data = src[<< "dx" >>].data

\* C34 witness: the glob copy of *, whose literal prefix is empty, copied
\* d/f to o/d/f
C34_WitnessEmptyPrefix ==
    /\ kind = "glob" /\ source = << "*" >> /\ Key(destination) = << "o" >>
    /\ PrefixKey = << >>
    /\ pc = "done" /\ result = "Ok"
    /\ << "o", "d", "f" >> \in DOMAIN dst

\* C34 witness: the recursive copy of the root "", the empty prefix, copied
\* d/f to o/d/f
C34_WitnessRoot ==
    /\ kind = "dir" /\ source = << "" >> /\ Key(destination) = << "o" >>
    /\ pc = "done" /\ result = "Ok"
    /\ << "o", "d", "f" >> \in DOMAIN dst

\* The two copies, the one that runs and the one that is suspended: what
\* each has of its own
BothCopies ==
    { [ calls |-> calls, created_dirs |-> created_dirs, pc |-> pc,
        result |-> result, source |-> source ],
      [ calls |-> other.calls, created_dirs |-> other.created_dirs,
        pc |-> other.pc, result |-> other.result, source |-> other.source ] }

\* The create_dir calls of a copy that succeeded for the directory k
CreateDirsOf(c, k) ==
    { i \in DOMAIN c.calls :
        /\ c.calls[i].b = "dst" /\ c.calls[i].op = "create_dir"
        /\ c.calls[i].res = "ok" /\ Key(c.calls[i].path) = k }

\* The files of the source backend below the source of a copy
FilesOf(c) ==
    { x \in DOMAIN src :
        /\ src[x].mode = "FILE"
        /\ Len(x) > Len(Key(c.source)) /\ IsPrefixSeq(Key(c.source), x) }

\* Where a copy places the file x of its source
TargetOf(c, x) ==
    Key(destination) \o SubSeq(x, Len(Key(c.source)) + 1, Len(x))

\* The directory of a key
DirOf(k) == SubSeq(k, 1, Len(k) - 1)

\* C35: of two copies that run at once on one destination each has a
\* CreatedDirsSet of its own: a set holds the destination root and the
\* directories its own copy created with success, never one that only the
\* other copy created; each copy issues create_dir for a parent at most
\* once, and a copy that has ended has issued its own create_dir for the
\* parent of each of its files, shared with the other copy or not, has
\* succeeded and has closed the transfer of each of its files; when both
\* have ended every file of both is at its destination path.
C35_OwnCreatedDirs ==
    other # << >> =>
        /\ \A c \in BothCopies :
            /\ \A d \in c.created_dirs :
                 \/ Key(d) = Key(destination)
                 \/ CreateDirsOf(c, Key(d)) # { }
            /\ \A k \in { Key(c.calls[i].path) : i \in DOMAIN c.calls } :
                 Cardinality(CreateDirsOf(c, k)) <= 1
            /\ c.pc = "done" =>
                 /\ c.result = "Ok"
                 /\ \A x \in FilesOf(c) :
                      /\ Cardinality(CreateDirsOf(c, DirOf(TargetOf(c, x)))) = 1
                      /\ \E i \in DOMAIN c.calls :
                           /\ c.calls[i].b = "dst" /\ c.calls[i].op = "close"
                           /\ c.calls[i].res = "ok"
                           /\ Key(c.calls[i].path) = TargetOf(c, x)
        /\ (\A c \in BothCopies : c.pc = "done") =>
             \A c \in BothCopies : \A x \in FilesOf(c) :
                 /\ TargetOf(c, x) \in DOMAIN dst
                 /\ dst[TargetOf(c, x)].data = src[x].data

\* C35 witness: the copy that runs is about to issue create_dir for o/s/
\* although the other copy, which is still under way, has created o/s/ and
\* holds it in its set
C35_Witness ==
    /\ other # << >>
    /\ pc = "create_parent" /\ Key(Parent(dest_path)) = << "o", "s" >>
    /\ srcArg # other.srcArg
    /\ other.pc \notin { "start", "done" }
    /\ \E d \in other.created_dirs : Key(d) = << "o", "s" >>
    /\ << "o", "s" >> \in DOMAIN dst

\* C35 witness: both copies have ended, each with its own create_dir for
\* o/s/ in its calls, and a/s/f and b/s/g are at o/s/f and o/s/g
C35_WitnessBothDone ==
    /\ other # << >>
    /\ srcArg # other.srcArg
    /\ \A c \in BothCopies :
         c.pc = "done" /\ c.result = "Ok" /\ CreateDirsOf(c, << "o", "s" >>) # { }
    /\ << "o", "s", "f" >> \in DOMAIN dst /\ << "o", "s", "g" >> \in DOMAIN dst


\* The factories whose outcome for the uri is not Unsupported
Supporting == { i \in 1..Len(factories) : factories[i] # "Unsupported" }

FirstSupporting == CHOOSE i \in Supporting : \A j \in Supporting : i <= j

\* C36: ChainOperatorFactory.load asks its factories in list order, each at
\* most once; every factory asked before the last one asked has answered
\* Unsupported, so none is asked after an operator or another error; the
\* load returns nothing before it is over, and when it is over it has
\* returned the outcome of the first factory whose outcome is not
\* Unsupported, having asked that factory last, or Unsupported, having
\* asked every factory, when there is no such factory or no factory at all
C36_ChainFirstOutcome ==
    kind = "chain" =>
      /\ Len(calls) <= Len(factories)
      /\ \A i \in 1..Len(calls) :
           /\ calls[i].b = i
           /\ calls[i].op = "load"
           /\ calls[i].res = factories[i]
           /\ i < Len(calls) => calls[i].res = "Unsupported"
      /\ pc # "done" => result = "none"
      /\ pc = "done" =>
           IF Supporting # { }
             THEN /\ result = factories[FirstSupporting]
                  /\ Len(calls) = FirstSupporting
             ELSE /\ result = "Unsupported"
                  /\ Len(calls) = Len(factories)

\* An error that is not Unsupported is returned from the second factory and
\* the third, which has an operator, is not asked
C36_Witness ==
    /\ kind = "chain" /\ pc = "done"
    /\ factories = << "Unsupported", "ConfigInvalid", "Ok" >>
    /\ result = "ConfigInvalid"
    /\ Len(calls) = 2

\* An operator is returned after a factory that answered Unsupported
C36_WitnessOk ==
    /\ kind = "chain" /\ pc = "done"
    /\ Len(factories) = MaxFactories
    /\ factories[1] = "Unsupported" /\ factories[2] = "Ok"
    /\ result = "Ok"

\* Every factory answers Unsupported
C36_WitnessAllUnsupported ==
    /\ kind = "chain" /\ pc = "done"
    /\ Len(factories) = MaxFactories
    /\ Supporting = { }
    /\ result = "Unsupported"

\* The list is empty
C36_WitnessEmpty ==
    /\ kind = "chain" /\ pc = "done"
    /\ factories = << >>
    /\ result = "Unsupported"


\* A create_dir for the directory d succeeded before the call i
CreatedBefore(i, d) ==
    \E j \in DstCreateDirs :
        j < i /\ calls[j].res = "ok" /\ PathEq(calls[j].path, d)

InCreatedDirs(d) == \E c \in created_dirs : PathEq(c, d)

\* C37: in a directory or glob copy every destination writer is asked for
\* at a path whose parent directory is in created_dirs, and that parent is
\* the destination root or a create_dir for it succeeded earlier in the
\* copy; every directory in created_dirs is the destination root or one
\* whose create_dir has succeeded, and the directory of a failed
\* create_dir is not in the set.
C37_ParentCreatedFirst ==
    EntriesCopy =>
        /\ \A i \in DstWriterOpens :
            LET p == calls[i].path IN
            /\ HasParent(p)
            /\ InCreatedDirs(Parent(p))
            /\ PathEq(Parent(p), destination) \/ CreatedBefore(i, Parent(p))
        /\ \A d \in created_dirs :
            PathEq(d, destination) \/ CreatedBefore(Len(calls) + 1, d)
        /\ \A i \in DstCreateDirs :
            calls[i].res # "ok" => ~InCreatedDirs(calls[i].path)

\* C37 witness: the writer of o/s/f was opened after the create_dir of o/s/
\* had succeeded in this copy
C37_Witness ==
    /\ kind = "dir"
    /\ \E i \in DstWriterOpens :
        /\ calls[i].path = << "o", "s", "f" >>
        /\ calls[i].res = "ok"
        /\ ~PathEq(Parent(calls[i].path), destination)
        /\ CreatedBefore(i, Parent(calls[i].path))

\* C37 witness: a writer was opened directly under the destination root,
\* for which this copy issued no create_dir
C37_WitnessRoot ==
    /\ kind \in { "dir", "glob" }
    /\ DstCreateDirs = { }
    /\ \E i \in DstWriterOpens :
        calls[i].res = "ok" /\ PathEq(Parent(calls[i].path), destination)

\* C37 witness: the create_dir of the missing root n/ succeeded, the
\* create_dir of the parent n/s/ failed, and the set holds the root only
C37_WitnessFailed ==
    /\ kind = "dir" /\ result = BackendError
    /\ \E i \in DstCreateDirs :
        /\ calls[i].res = "ok"
        /\ PathEq(calls[i].path, destination)
    /\ \E i \in DstCreateDirs :
        /\ calls[i].res # "ok"
        /\ calls[i].path = << "n", "s", "" >>
    /\ created_dirs # { }
    /\ \A d \in created_dirs : PathEq(d, destination)


\* The calls copy makes on the source backend: stat, the two listings and
\* the turns of their stream, and the reader with its byte stream
SourceReadOps ==
    { "stat", "list", "list_recursive", "next", "reader", "stream", "read" }

SourceCalls == { i \in DOMAIN calls : calls[i].b = "src" }

\* C38: no step of a copy, successful or failed, changes what the source
\* backend holds, and every call copy makes on the source backend is a
\* stat, a listing or a read; the calls that create or write go to the
\* destination backend.
C38_SourceUnchanged ==
    /\ [][src' = src]_vars
    /\ [](\A i \in DOMAIN calls :
            /\ i \in SourceCalls => calls[i].op \in SourceReadOps
            /\ calls[i].op \in { "create_dir", "writer", "write", "close" }
                   => calls[i].b = "dst")

\* C38 witness: a recursive directory copy is over with success, it has
\* stat-ed, listed and read the source, and the destination has changed
C38_Witness ==
    /\ kind = "dir" /\ recursive /\ pc = "done" /\ result = "Ok"
    /\ \A op \in { "stat", "list_recursive", "next", "reader", "stream", "read" } :
        \E i \in SourceCalls : calls[i].op = op
    /\ dst # DstObjects

\* C38 witness: a copy failed on the destination after it had read a
\* chunk of the source
C38_WitnessFailed ==
    /\ pc = "done" /\ result = BackendError
    /\ \E i \in SourceCalls : calls[i].op = "read" /\ calls[i].res = "ok"
    /\ calls[Len(calls)].b = "dst"

====
